---------------------------- MODULE Spec2Model ----------------------------
(***************************************************************************)
(* Orchestration pipeline of the MCP orchestrator examples:                *)
(*   workflow : src/orchestration/workflow.py  run  (three platforms)      *)
(*   main     : src/main.py                    run  (two platforms)        *)
(*   seq7     : src/7_multi_agent_with_mcp_handoff_guardrail.py run        *)
(*              (two platforms, queried one after the other)               *)
(* The hosted model and the tool servers are the environment: every        *)
(* Runner.run is a call that is issued by the program and later returns a  *)
(* value or raises an Exception, chosen by the environment.                *)
(* A raise is an instance of Exception (the class both the handler of run  *)
(* and the isinstance test after gather look for).                         *)
(***************************************************************************)
EXTENDS Naturals, Sequences, FiniteSets, TLC

VARIABLES
    variant,            \* which script's run is executing
    test_queries,       \* the static list run iterates over
    i,                  \* position of enumerate(test_queries, 1); the inner loop of
                        \* workflow.py 307 rebinds the name i, not this iterator
    pc,                 \* where run is suspended
    message,            \* loop variable: the current query text
    guardrail_check,    \* has_sensitive_information of the last verdict
    required_services,  \* platforms whose flag is true in the last decision
    services_to_query,  \* workflow.py: list of the prepared platform names
    task,               \* per platform: state of its coroutine / external call
    task_result,        \* per platform: value its settled coroutine returned
    servicenow_results, \* result slot (local of run)
    gti_results,        \* result slot (local of run)
    opensearch_results, \* result slot (local of run, workflow.py only)
    context,            \* text last handed to the aggregator / visualizer
    calls,              \* external calls of the current query, in order
    outcome,            \* per query: what the console transcript shows
    environ,            \* os.environ: the three variables main.py reads
    dotenv_files,       \* content of ~/.env and ~/.env.<environment>
    yaml_files,         \* content of config/environments/*.yaml
    spc,                \* where the import of main.py stands
    error,              \* class of the exception that ended the import
    _config,            \* config_manager._config
    _environment,       \* config_manager._environment
    azure_endpoint,     \* module global of main.py
    api_key,            \* module global of main.py
    got,                \* the last call of config_manager.get and its result
    mpc,                \* where main() of main.py stands
    server,             \* per tool server: state of its connection
    opens,              \* per tool server: how often it was connected
    run_servers,        \* per tool server: the handle run was called with
    last_load,          \* the last call of load_config by a client of the
                        \* class, and the fields it found
    first_run,          \* what an earlier execution of run did, kept to
                        \* compare the present execution with it
    heap,               \* the dict objects in memory, by address
    roots,              \* the addresses of the dicts a caller of
                        \* _merge_configs holds
    merges              \* the calls of _merge_configs made so far

run_vars == << variant, test_queries, i, pc, message, guardrail_check,
               required_services, services_to_query, task, task_result,
               servicenow_results, gti_results, opensearch_results, context,
               calls, outcome >>

main_vars == << mpc, server, opens, run_servers >>

lib_vars == << last_load >>

twin_vars == << first_run >>

heap_vars == << heap, roots, merges >>

startup_vars == << environ, dotenv_files, yaml_files, spc, error, _config,
                   _environment, azure_endpoint, api_key, got, main_vars,
                   lib_vars, twin_vars, heap_vars >>

vars == << run_vars, startup_vars >>

-----------------------------------------------------------------------------
(* Bounds and input domains *)

MaxQueries == 2

Variants == {"workflow", "main", "seq7"}

Platforms == {"servicenow", "gti", "opensearch"}

QueryTexts == {"find incidents for user john", "search for APT28"}

\* final_output texts the platform agents may answer with
FinalOutputs(p) ==
    CASE p = "servicenow" -> {"INC001: open", "no incidents"}
      [] p = "gti" -> {"APT28: active"}
      [] p = "opensearch" -> {"3 indices"}

\* the platforms a variant knows: ServiceDecision has no opensearch field in
\* main.py and in script 7
VariantPlatforms(v) == IF v = "workflow" THEN Platforms ELSE {"servicenow", "gti"}

-----------------------------------------------------------------------------
(* Values *)

\* Optional[List[...]]: an unbound local, None, or a list of result records
Unbound == [tag |-> "Unbound", list |-> << >>]
None == [tag |-> "None", list |-> << >>]
ListOf(l) == [tag |-> "List", list |-> l]

\* Python truth value of a slot, as tested by "if servicenow_results:"
Truthy(x) == x.tag = "List" /\ Len(x.list) > 0

SourceName(p) ==
    CASE p = "servicenow" -> "ServiceNow"
      [] p = "gti" -> "Google Threat Intelligence"
      [] p = "opensearch" -> "OpenSearch"

\* what query_servicenow / query_gti / query_opensearch return
QueryResult(p, user_query, final_output) ==
    ListOf(<< [query |-> user_query, result |-> final_output, source |-> SourceName(p)] >>)

\* an Exception instance, as gather(return_exceptions=True) hands it back
ExceptionObject == [tag |-> "Exception", list |-> << >>]

\* one entry of the record of external calls: a call issued, or its return
\* (with the text returned by a platform agent) or its raise
Event(kind, ev) == [kind |-> kind, ev |-> ev, val |-> ""]
Returned(kind, final_output) == [kind |-> kind, ev |-> "return", val |-> final_output]


-----------------------------------------------------------------------------
(* Context text: a text is the sequence of the pieces concatenated into it *)

RECURSIVE ResultLines(_)
\* for result in results: context += f"- {result.result}\n"
ResultLines(list) ==
    IF list = << >> THEN << >>
    ELSE << "- ", Head(list).result, "\n" >> \o ResultLines(Tail(list))

\* variant of Section that writes the heading whatever the slot holds
Section_Unconditional(heading, results) ==
    << heading >> \o ResultLines(results.list) \o << "\n" >>

\* if results: context += heading; one line per result; context += "\n"
Section(heading, results) ==
    IF Truthy(results)
    THEN << heading >> \o ResultLines(results.list) \o << "\n" >>
    ELSE << >>

ContextHead(user_query) == << "Original Query: ", user_query, "\n\n" >>

\* workflow.py visualize_results: the context handed to the visualization agent
visualize_results(user_query, sn, g, os) ==
    ContextHead(user_query)
        \o Section("ServiceNow Results:\n", sn)
        \o Section("GTI Results:\n", g)
        \o Section("OpenSearch Results:\n", os)

\* main.py and script 7 aggregate_results: the context handed to the aggregator
aggregate_results(user_query, sn, g) ==
    ContextHead(user_query)
        \o Section("ServiceNow Results:\n", sn)
        \o Section("GTI Results:\n", g)
        \o << "Please provide a comprehensive summary and recommendations based on all available information." >>

\* variant of BuildContext that writes the GTI section first when the GTI
\* call settled before the ServiceNow call
BuildContext_CompletionOrder(v, user_query, sn, g, os) ==
    LET returned(p) == { k \in 1..Len(calls) : calls[k].kind = p /\ calls[k].ev = "return" }
        gti_first == \E a \in returned("gti") : \E b \in returned("servicenow") : a < b
        tail == IF v = "workflow" THEN Section("OpenSearch Results:\n", os)
                ELSE << "Please provide a comprehensive summary and recommendations based on all available information." >>
    IN  IF gti_first
        THEN ContextHead(user_query) \o Section("GTI Results:\n", g)
                 \o Section("ServiceNow Results:\n", sn) \o tail
        ELSE ContextHead(user_query) \o Section("ServiceNow Results:\n", sn)
                 \o Section("GTI Results:\n", g) \o tail

\* the context run hands over: visualize_results in workflow.py,
\* aggregate_results in main.py and script 7
BuildContext(v, user_query, sn, g, os) ==
    IF v = "workflow" THEN visualize_results(user_query, sn, g, os)
    ELSE aggregate_results(user_query, sn, g)

-----------------------------------------------------------------------------
(* Pieces of run *)

\* variant of ServicesToQuery that forgets to append the GTI query
ServicesToQuery_DropsGti(flags) ==
    (IF "servicenow" \in flags THEN << "servicenow" >> ELSE << >>)
        \o (IF "opensearch" \in flags THEN << "opensearch" >> ELSE << >>)

\* workflow.py step 3: services_to_query, appended in the fixed order
ServicesToQuery(flags) ==
    (IF "servicenow" \in flags THEN << "servicenow" >> ELSE << >>)
        \o (IF "gti" \in flags THEN << "gti" >> ELSE << >>)
        \o (IF "opensearch" \in flags THEN << "opensearch" >> ELSE << >>)

\* variant of ExecutionMode that takes the gather branch for an empty selection
ExecutionMode_GatherWhenEmpty(v, flags) ==
    IF flags = {} THEN "gather"
    ELSE IF Cardinality(flags) > 1 THEN "gather" ELSE "single"

\* the branch of step 4 taken for the prepared list (workflow.py) or for the
\* two flags (main.py)
ExecutionMode(v, flags) ==
    IF v = "workflow"
    THEN IF Len(ServicesToQuery(flags)) > 1 THEN "gather"
         ELSE IF Len(ServicesToQuery(flags)) = 1 THEN "single"
         ELSE "none"
    ELSE IF "servicenow" \in flags /\ "gti" \in flags THEN "gather"
         ELSE IF "servicenow" \in flags THEN "single"
         ELSE IF "gti" \in flags THEN "single"
         ELSE "none"

\* the platform awaited directly when a single one is selected
SinglePlatform(v, flags) ==
    IF v = "workflow" THEN ServicesToQuery(flags)[1]
    ELSE IF "servicenow" \in flags THEN "servicenow" ELSE "gti"

\* variant of GatherOrder in which main.py hands the GTI query to gather first
GatherOrder_MainGtiFirst(v, flags) ==
    IF v = "workflow" THEN ServicesToQuery(flags) ELSE << "gti", "servicenow" >>

\* the awaitables handed to asyncio.gather, in argument order
GatherOrder(v, flags) ==
    IF v = "workflow" THEN ServicesToQuery(flags) ELSE << "servicenow", "gti" >>

SeqToSet(s) == { s[k] : k \in 1..Len(s) }

IndexOf(s, x) == CHOOSE k \in 1..Len(s) : s[k] = x

\* variant of AfterGuardrail without the gate
AfterGuardrail_NoGate(has_sensitive_information) == "router"

\* variant of AfterGuardrail that also skips a query by a word of its text
AfterGuardrail_KeywordGate(has_sensitive_information) ==
    IF has_sensitive_information \/ message = "search for APT28"
    THEN "continue" ELSE "router"

\* what "if guardrail_check.has_sensitive_information: continue" decides
AfterGuardrail(has_sensitive_information) ==
    IF has_sensitive_information THEN "continue" ELSE "router"

\* variant of GatherDone that resolves as soon as one awaitable settled
GatherDone_FirstCompleted(order, t) ==
    \E k \in 1..Len(order) : t[order[k]] \in {"ok", "err"}

\* asyncio.gather(..., return_exceptions=True) resolves once every awaitable
\* has returned or raised
GatherDone(order, t) ==
    \A k \in 1..Len(order) : t[order[k]] \in {"ok", "err"}

\* variant of GatherResults that lists the outcomes in the order in which
\* the awaitables settled
GatherResults_CompletionOrder(order, t, r) ==
    LET settled(p) == CHOOSE k \in 1..Len(calls) :
                          calls[k].kind = p /\ calls[k].ev \in {"return", "raise"}
        rank(p) == Cardinality({ q \in SeqToSet(order) : settled(q) <= settled(p) })
        at(k) == CHOOSE p \in SeqToSet(order) : rank(p) = k
    IN  [k \in 1..Len(order) |->
            IF t[at(k)] = "err" THEN [exc |-> TRUE, value |-> ExceptionObject]
            ELSE [exc |-> FALSE, value |-> r[at(k)]]]

\* the list gather resolves to: the exception object or the returned value,
\* in argument order
GatherResults(order, t, r) ==
    [k \in 1..Len(order) |->
        IF t[order[k]] = "err" THEN [exc |-> TRUE, value |-> ExceptionObject]
        ELSE [exc |-> FALSE, value |-> r[order[k]]]]

\* variant of SlotAfterGather without the isinstance(results[i], Exception) test
SlotAfterGather_NoIsinstance(p, order, results, old) ==
    IF p \in SeqToSet(order) THEN results[IndexOf(order, p)].value ELSE old

\* the slot of platform p after the results of gather were processed:
\* None if isinstance(results[i], Exception), else results[i]
SlotAfterGather(p, order, results, old) ==
    IF p \in SeqToSet(order)
    THEN IF results[IndexOf(order, p)].exc THEN None
         ELSE results[IndexOf(order, p)].value
    ELSE old

-----------------------------------------------------------------------------
(* Configuration values (src/config/config_manager.py, src/main.py 32-64)   *)
(* A key and a key path are texts: sequences of characters.                *)

\* a YAML / Python value: None, a scalar (str, int, ...) or a mapping from
\* keys to values
NoneValue == [tag |-> "None", val |-> "", items |-> << >>]
Scalar(s) == [tag |-> "scalar", val |-> s, items |-> << >>]
Dict(items) == [tag |-> "dict", val |-> "", items |-> items]

\* a path at which no file exists
Missing == [tag |-> "Missing", val |-> "", items |-> << >>]

\* the key made of the one character c
K(c) == << c >>

ExampleBase ==
    Dict(K("a") :> Dict((K("x") :> Scalar("1")) @@ (K("y") :> Scalar("2"))))

ExampleOverlay ==
    Dict(K("a") :> Dict((K("y") :> Scalar("3")) @@ (K("z") :> Scalar("4"))))

\* what base.yaml may hold (NoneValue: an empty file)
BaseContents ==
    { ExampleBase,
      Dict(K("a") :> Scalar("1")),
      Dict((K("a") :> Dict(K("x") :> Dict(K("y") :> Scalar("1")))) @@ (K("b") :> Scalar("2"))),
      Dict(<< >>),
      NoneValue }

\* what <environment>.yaml may hold
OverlayContents ==
    { ExampleOverlay,
      Dict(K("a") :> Scalar("5")),
      Dict(K("a") :> Dict(K("x") :> Dict(K("z") :> Scalar("2")))),
      Dict(K("b") :> Dict(K("x") :> Scalar("1"))),
      NoneValue }

\* key paths handed to get: "a", "a.x", "a.x.y", "b", "", "a." and "ax"
KeyPaths ==
    { << "a" >>, << "a", ".", "x" >>, << "a", ".", "x", ".", "y" >>, << "b" >>,
      << >>, << "a", "." >>, << "a", "x" >> }

\* the default handed to get: None when the caller gives none
Defaults == { NoneValue, Scalar("fallback") }

EnvNames == {"ENV", "AZURE_OPENAI_ENDPOINT", "AZURE_OPENAI_API_KEY"}

\* the value a variable has where it is set
EnvValue(n) ==
    CASE n = "ENV" -> Scalar("development")
      [] n = "AZURE_OPENAI_ENDPOINT" -> Scalar("https://example.openai.azure.com")
      [] n = "AZURE_OPENAI_API_KEY" -> Scalar("secret")

\* ~/.env: empty or absent, or one that sets ENV
HomeDotenvs == { << >>, "ENV" :> EnvValue("ENV") }

\* ~/.env.<environment>: empty or absent, or one that holds the credentials
EnvDotenvs ==
    { << >>,
      ("AZURE_OPENAI_ENDPOINT" :> EnvValue("AZURE_OPENAI_ENDPOINT"))
          @@ ("AZURE_OPENAI_API_KEY" :> EnvValue("AZURE_OPENAI_API_KEY")) }

HomeDotenvPath == << "~/.env" >>
EnvDotenvPath(environment) == << "~/.env.", environment >>
base_config_path == << "base.yaml" >>
env_config_path(environment) == << environment, ".yaml" >>

\* Path.exists()
exists(path) == path \in DOMAIN yaml_files /\ yaml_files[path] # Missing

\* os.getenv(name)
getenv(name) == environ[name]

\* variant of getenv_default that does not look at the variable
getenv_default_AlwaysDefault(name, default) == Scalar(default)

\* os.getenv(name, default)
getenv_default(name, default) ==
    IF environ[name] = NoneValue THEN Scalar(default) ELSE environ[name]

\* load_dotenv(dotenv_path=path, override=override): the environment after it
load_dotenv(path, override) ==
    IF path \notin DOMAIN dotenv_files THEN environ
    ELSE [n \in EnvNames |->
             IF n \in DOMAIN dotenv_files[path] /\ (override \/ environ[n] = NoneValue)
             THEN dotenv_files[path][n]
             ELSE environ[n]]

\* variant of _merge_configs that takes the override's value for every key
\* of the override
_merge_configs_Shallow(base, override) ==
    Dict([key \in DOMAIN base.items \cup DOMAIN override.items |->
            IF key \in DOMAIN override.items THEN override.items[key]
            ELSE base.items[key]])

RECURSIVE _merge_configs(_, _)
\* result = base.copy(); for key, value in override.items(): merge when both
\* values are dicts, else result[key] = value
_merge_configs(base, override) ==
    Dict([key \in DOMAIN base.items \cup DOMAIN override.items |->
            IF key \in DOMAIN override.items
            THEN IF /\ key \in DOMAIN base.items
                    /\ base.items[key].tag = "dict"
                    /\ override.items[key].tag = "dict"
                 THEN _merge_configs(base.items[key], override.items[key])
                 ELSE override.items[key]
            ELSE base.items[key]])

\* variant of load_config that merges the base document into the loaded
\* configuration instead of replacing it
load_config_Accumulates(environment) ==
    LET env == IF environment = NoneValue
               THEN getenv_default("ENV", "development")
               ELSE environment
    IN  IF ~exists(base_config_path)
        THEN [_config |-> _config, _environment |-> env, raised |-> "FileNotFoundError"]
        ELSE LET base == IF _config.tag = "dict" /\ yaml_files[base_config_path].tag = "dict"
                         THEN _merge_configs(_config, yaml_files[base_config_path])
                         ELSE yaml_files[base_config_path]
             IN  IF ~exists(env_config_path(env.val))
                 THEN [_config |-> base, _environment |-> env, raised |-> ""]
                 ELSE LET env_config == yaml_files[env_config_path(env.val)]
                      IN  IF base.tag # "dict" \/ env_config.tag # "dict"
                          THEN \* None and str have no copy() / items()
                               [_config |-> base, _environment |-> env,
                                raised |-> "AttributeError"]
                          ELSE [_config |-> _merge_configs(base, env_config),
                                _environment |-> env, raised |-> ""]

\* load_config(environment): the fields it leaves and the exception it
\* raises, if any
load_config(environment) ==
    LET env == IF environment = NoneValue
               THEN getenv_default("ENV", "development")
               ELSE environment
    IN  IF ~exists(base_config_path)
        THEN [_config |-> _config, _environment |-> env, raised |-> "FileNotFoundError"]
        ELSE LET base == yaml_files[base_config_path]
             IN  IF ~exists(env_config_path(env.val))
                 THEN [_config |-> base, _environment |-> env, raised |-> ""]
                 ELSE LET env_config == yaml_files[env_config_path(env.val)]
                      IN  IF base.tag # "dict" \/ env_config.tag # "dict"
                          THEN \* None and str have no copy() / items()
                               [_config |-> base, _environment |-> env,
                                raised |-> "AttributeError"]
                          ELSE [_config |-> _merge_configs(base, env_config),
                                _environment |-> env, raised |-> ""]

\* the property environment: self._environment or "development"
environment_property ==
    IF _environment = NoneValue \/ _environment.val = ""
    THEN "development"
    ELSE _environment.val

RECURSIVE split(_)
\* key_path.split('.')
split(text) ==
    IF text = << >> THEN << << >> >>
    ELSE IF Head(text) = "." THEN << << >> >> \o split(Tail(text))
    ELSE LET rest == split(Tail(text))
         IN  << << Head(text) >> \o Head(rest) >> \o Tail(rest)

RECURSIVE Subscript(_, _)
\* for key in keys: value = value[key]; the value reached, or the exception
\* a subscript raised
Subscript(value, keys) ==
    IF keys = << >> THEN [raised |-> "", value |-> value]
    ELSE IF value.tag # "dict" THEN [raised |-> "TypeError", value |-> NoneValue]
    ELSE IF Head(keys) \notin DOMAIN value.items
         THEN [raised |-> "KeyError", value |-> NoneValue]
    ELSE Subscript(value.items[Head(keys)], Tail(keys))

\* variant of get whose handler is "except KeyError" alone
get_KeyErrorOnly(key_path, default) ==
    LET r == Subscript(_config, split(key_path))
    IN  IF r.raised \in {"KeyError"}
        THEN [raised |-> "", value |-> default]
        ELSE r

\* get(key_path, default): try the subscripts, except (KeyError, TypeError):
\* return default
get(key_path, default) ==
    LET r == Subscript(_config, split(key_path))
    IN  IF r.raised \in {"KeyError", "TypeError"}
        THEN [raised |-> "", value |-> default]
        ELSE r

\* no call of get yet
NotCalled ==
    [called |-> FALSE, key_path |-> << >>, default |-> NoneValue,
     config |-> NoneValue, raised |-> "", value |-> NoneValue]

\* an import of main.py that went through: main() is to be run
StartupCompleted ==
    /\ environ = [n \in EnvNames |-> EnvValue(n)]
    /\ dotenv_files = (HomeDotenvPath :> << >>) @@ (EnvDotenvPath("development") :> << >>)
    /\ yaml_files = (base_config_path :> ExampleBase)
                        @@ (env_config_path("development") :> Missing)
    /\ spc = "main"
    /\ error = ""
    /\ _config = ExampleBase
    /\ _environment = Scalar("development")
    /\ azure_endpoint = EnvValue("AZURE_OPENAI_ENDPOINT")
    /\ api_key = EnvValue("AZURE_OPENAI_API_KEY")
    /\ got = NotCalled

-----------------------------------------------------------------------------
(* Initial state: run is about to enter its for loop *)

PipelineInit ==
    /\ variant \in Variants
    /\ \E n \in 1..MaxQueries : test_queries \in [1..n -> QueryTexts]
    /\ i = 1
    /\ pc = "loop"
    /\ message = ""
    /\ guardrail_check = FALSE
    /\ required_services = {}
    /\ services_to_query = << >>
    /\ task = [p \in Platforms |-> "none"]
    /\ task_result = [p \in Platforms |-> None]
    /\ servicenow_results = Unbound
    /\ gti_results = Unbound
    /\ opensearch_results = Unbound
    /\ context = << >>
    /\ calls = << >>
    /\ outcome = [k \in 1..Len(test_queries) |-> "pending"]

\* the tool servers main() of main.py runs run with (lines 491-503)
Servers == {"gti", "servicenow"}

\* no connection yet, no handle
NoHandle == [id |-> 0]

\* the handle "async with MCPServerStdio(...) as x" binds: the connection
\* made by the n-th connect of server s
Handle(s, n) == [id |-> n]

\* no client has called load_config
NoLoad ==
    [called |-> FALSE, environment |-> NoneValue, prior_config |-> NoneValue,
     prior_environment |-> NoneValue]

\* no earlier execution of run
NoRun ==
    [recorded |-> FALSE, twin |-> "", verdict_known |-> FALSE, verdict |-> FALSE,
     flags_known |-> FALSE, flags |-> {}, settled |-> {}, issued |-> << >>,
     outcome |-> "", present |-> {}]

\* the caller holds no dict yet
NoRoots == [base |-> 0, override |-> 0, empty |-> 0]

\* _merge_configs was not called on objects in memory
HeapEmpty ==
    /\ heap = << >>
    /\ roots = NoRoots
    /\ merges = << >>

\* main() is inside its "async with": both servers are connected and run
\* was called with their handles
ServersStarted ==
    /\ mpc = "running"
    /\ server = [s \in Servers |-> "open"]
    /\ opens = [s \in Servers |-> 1]
    /\ run_servers = [s \in Servers |-> Handle(s, 1)]

\* main() was not called yet
ServersNotStarted ==
    /\ mpc = "start"
    /\ server = [s \in Servers |-> "unopened"]
    /\ opens = [s \in Servers |-> 0]
    /\ run_servers = [s \in Servers |-> NoHandle]

Init ==
    /\ PipelineInit
    /\ StartupCompleted
    /\ ServersStarted
    /\ last_load = NoLoad
    /\ first_run = NoRun
    /\ HeapEmpty

-----------------------------------------------------------------------------
(* Steps of run shared by the three scripts *)

\* variant of NextIteration that does not advance: the same query is taken again
NextIteration_Again(what) ==
    /\ outcome' = [outcome EXCEPT ![i] = what]
    /\ i' = i
    /\ pc' = "loop"

\* variant of NextIteration that leaves the loop (break) instead of going on
NextIteration_Break(what) ==
    /\ outcome' = [outcome EXCEPT ![i] = what]
    /\ i' = i + 1
    /\ pc' = "done"

\* the for statement ends the iteration of the current query
NextIteration(what) ==
    /\ outcome' = [outcome EXCEPT ![i] = what]
    /\ i' = i + 1
    /\ pc' = "loop"

\* variant of HandleException that lets the exception escape run
HandleException_Escapes(log) ==
    /\ calls' = log
    /\ outcome' = [outcome EXCEPT ![i] = "error"]
    /\ pc' = "done"
    /\ UNCHANGED i

\* except Exception as e: print("Error processing query"), then the next query
HandleException(log) ==
    /\ calls' = log
    /\ NextIteration("error")

\* step 5 / step 4: build the context from the slots and call the aggregator
\* (workflow.py 340 -> 207-226, main.py 459 -> 336-354, script 7 442 -> 358-376)
CallAggregator(sn, g, os, log) ==
    /\ servicenow_results' = sn
    /\ gti_results' = g
    /\ opensearch_results' = os
    /\ context' = BuildContext(variant, message, sn, g, os)
    /\ calls' = Append(log, Event("aggregator", "call"))
    /\ pc' = "aggregate"

\* variant of StartQuery that issues the router call without awaiting the guardrail
StartQuery_Parallel ==
    /\ pc = "loop"
    /\ i <= Len(test_queries)
    /\ message' = test_queries[i]
    /\ calls' = << Event("guardrail", "call"), Event("router", "call") >>
    /\ pc' = "guardrail"
    /\ UNCHANGED << startup_vars, variant, test_queries, i, guardrail_check, required_services,
                    services_to_query, task, task_result, servicenow_results,
                    gti_results, opensearch_results, context, outcome >>

\* for i, message in enumerate(test_queries, 1): ... await check_guardrails(message)
StartQuery ==
    /\ pc = "loop"
    /\ i <= Len(test_queries)
    /\ message' = test_queries[i]
    /\ calls' = << Event("guardrail", "call") >>
    /\ pc' = "guardrail"
    /\ UNCHANGED << startup_vars, variant, test_queries, i, guardrail_check, required_services,
                    services_to_query, task, task_result, servicenow_results,
                    gti_results, opensearch_results, context, outcome >>

\* the list is exhausted: run returns
EndRun ==
    /\ pc = "loop"
    /\ i > Len(test_queries)
    /\ pc' = "done"
    /\ UNCHANGED << startup_vars, variant, test_queries, i, message, guardrail_check,
                    required_services, services_to_query, task, task_result,
                    servicenow_results, gti_results, opensearch_results, context,
                    calls, outcome >>

\* check_guardrails returns a verdict: skip the query or call the router
GuardrailReturn(has_sensitive_information) ==
    /\ pc = "guardrail"
    /\ guardrail_check' = has_sensitive_information
    /\ IF AfterGuardrail(has_sensitive_information) = "continue"
       THEN /\ calls' = Append(calls, Event("guardrail", "return"))
            /\ NextIteration("skipped")
       ELSE /\ calls' = calls \o << Event("guardrail", "return"), Event("router", "call") >>
            /\ pc' = "router"
            /\ UNCHANGED << i, outcome >>
    /\ UNCHANGED << startup_vars, variant, test_queries, message, required_services,
                    services_to_query, task, task_result, servicenow_results,
                    gti_results, opensearch_results, context >>

\* variant of GuardrailRaise that fails open: the error is swallowed and the
\* router is called
GuardrailRaise_FailOpen ==
    /\ pc = "guardrail"
    /\ calls' = calls \o << Event("guardrail", "raise"), Event("router", "call") >>
    /\ pc' = "router"
    /\ UNCHANGED << startup_vars, variant, test_queries, i, message, guardrail_check,
                    required_services, services_to_query, task, task_result,
                    servicenow_results, gti_results, opensearch_results, context,
                    outcome >>

\* check_guardrails raises: nothing catches it before the handler of run
GuardrailRaise ==
    /\ pc = "guardrail"
    /\ HandleException(Append(calls, Event("guardrail", "raise")))
    /\ UNCHANGED << startup_vars, variant, test_queries, message, guardrail_check,
                    required_services, services_to_query, task, task_result,
                    servicenow_results, gti_results, opensearch_results, context >>

\* variant of RouterRaise that calls the router once more
RouterRaise_Retry ==
    /\ pc = "router"
    /\ \A k \in 1..Len(calls) : ~(calls[k].kind = "router" /\ calls[k].ev = "raise")
    /\ calls' = calls \o << Event("router", "raise"), Event("router", "call") >>
    /\ UNCHANGED << startup_vars, variant, test_queries, i, pc, message,
                    guardrail_check, required_services, services_to_query, task,
                    task_result, servicenow_results, gti_results,
                    opensearch_results, context, outcome >>

\* determine_required_services raises
RouterRaise ==
    /\ pc = "router"
    /\ HandleException(Append(calls, Event("router", "raise")))
    /\ UNCHANGED << startup_vars, variant, test_queries, message, guardrail_check,
                    required_services, services_to_query, task, task_result,
                    servicenow_results, gti_results, opensearch_results, context >>

-----------------------------------------------------------------------------
(* Steps 2-4 of workflow.py and main.py: fan-out with asyncio.gather *)

\* variant of RouterReturn without the initialisation of the result variables
RouterReturn_NoReset(flags) ==
    /\ pc = "router"
    /\ variant \in {"workflow", "main"}
    /\ flags \subseteq VariantPlatforms(variant)
    /\ required_services' = flags
    /\ services_to_query' =
          IF variant = "workflow" THEN ServicesToQuery(flags) ELSE services_to_query
    /\ LET log == Append(calls, Event("router", "return"))
           mode == ExecutionMode(variant, flags)
       IN  CASE mode = "gather" ->
                  /\ UNCHANGED << servicenow_results, gti_results, opensearch_results >>
                  /\ task' = [p \in Platforms |->
                                IF p \in SeqToSet(GatherOrder(variant, flags))
                                THEN "scheduled" ELSE task[p]]
                  /\ calls' = log
                  /\ pc' = "gather"
                  /\ UNCHANGED context
              [] mode = "single" ->
                  /\ UNCHANGED << servicenow_results, gti_results, opensearch_results >>
                  /\ task' = [task EXCEPT ![SinglePlatform(variant, flags)] = "running"]
                  /\ calls' = Append(log, Event(SinglePlatform(variant, flags), "call"))
                  /\ pc' = "single"
                  /\ UNCHANGED context
              [] mode = "none" ->
                  /\ CallAggregator(servicenow_results, gti_results, opensearch_results, log)
                  /\ UNCHANGED task
    /\ UNCHANGED << startup_vars, variant, test_queries, i, message, guardrail_check,
                    task_result, outcome >>

\* determine_required_services returns in workflow.py / main.py: the slots
\* are initialised, then gather is awaited, or the single coroutine is
\* awaited, or (no flag set) the aggregator is called at once
RouterReturn(flags) ==
    /\ pc = "router"
    /\ variant \in {"workflow", "main"}
    /\ flags \subseteq VariantPlatforms(variant)
    /\ required_services' = flags
    /\ services_to_query' =
          IF variant = "workflow" THEN ServicesToQuery(flags) ELSE services_to_query
    /\ LET log == Append(calls, Event("router", "return"))
           mode == ExecutionMode(variant, flags)
           os == IF variant = "workflow" THEN None ELSE opensearch_results
       IN  CASE mode = "gather" ->
                  /\ servicenow_results' = None
                  /\ gti_results' = None
                  /\ opensearch_results' = os
                  /\ task' = [p \in Platforms |->
                                IF p \in SeqToSet(GatherOrder(variant, flags))
                                THEN "scheduled" ELSE task[p]]
                  /\ calls' = log
                  /\ pc' = "gather"
                  /\ UNCHANGED context
              [] mode = "single" ->
                  /\ servicenow_results' = None
                  /\ gti_results' = None
                  /\ opensearch_results' = os
                  /\ task' = [task EXCEPT ![SinglePlatform(variant, flags)] = "running"]
                  /\ calls' = Append(log, Event(SinglePlatform(variant, flags), "call"))
                  /\ pc' = "single"
                  /\ UNCHANGED context
              [] mode = "none" ->
                  /\ CallAggregator(None, None, os, log)
                  /\ UNCHANGED task
    /\ UNCHANGED << startup_vars, variant, test_queries, i, message, guardrail_check,
                    task_result, outcome >>

\* variant of CanStart for awaitables awaited one after the other: p starts
\* once the awaitables before it have settled
CanStart_AfterPrevious(p) ==
    /\ task[p] = "scheduled"
    /\ LET order == GatherOrder(variant, required_services)
       IN  \A k \in 1..Len(order) :
              k < IndexOf(order, p) => task[order[k]] \in {"ok", "err"}

\* asyncio.gather wraps every awaitable in a task at once; the event loop
\* runs their first steps in the order gather was given them
CanStart(p) ==
    /\ task[p] = "scheduled"
    /\ LET order == GatherOrder(variant, required_services)
       IN  \A k \in 1..Len(order) :
              k < IndexOf(order, p) => task[order[k]] # "scheduled"

\* the event loop runs the first step of a task of gather, up to its
\* Runner.run (every Runner.run suspends until its response arrives)
TaskStart(p) ==
    /\ pc = "gather"
    /\ CanStart(p)
    /\ task' = [task EXCEPT ![p] = "running"]
    /\ calls' = Append(calls, Event(p, "call"))
    /\ UNCHANGED << startup_vars, variant, test_queries, i, pc, message, guardrail_check,
                    required_services, services_to_query, task_result,
                    servicenow_results, gti_results, opensearch_results, context,
                    outcome >>

\* the event loop delivers a response only when no first step of a task is
\* waiting to run
AllStarted == \A q \in Platforms : ~CanStart(q)

\* a query_<platform> task of gather returns its one-element list
TaskReturn(p, final_output) ==
    /\ pc = "gather"
    /\ task[p] = "running"
    /\ AllStarted
    /\ task' = [task EXCEPT ![p] = "ok"]
    /\ task_result' = [task_result EXCEPT ![p] = QueryResult(p, message, final_output)]
    /\ calls' = Append(calls, Returned(p, final_output))
    /\ UNCHANGED << startup_vars, variant, test_queries, i, pc, message, guardrail_check,
                    required_services, services_to_query, servicenow_results,
                    gti_results, opensearch_results, context, outcome >>

\* variant of TaskRaise for gather without return_exceptions: the first
\* exception is raised in run at once, the other tasks keep running
TaskRaise_Propagates(p) ==
    /\ pc = "gather"
    /\ task[p] = "running"
    /\ AllStarted
    /\ task' = [task EXCEPT ![p] = "none"]
    /\ HandleException(Append(calls, Event(p, "raise")))
    /\ UNCHANGED << startup_vars, variant, test_queries, message, guardrail_check,
                    required_services, services_to_query, task_result,
                    servicenow_results, gti_results, opensearch_results, context >>

\* a query_<platform> task of gather raises: gather keeps the exception
TaskRaise(p) ==
    /\ pc = "gather"
    /\ task[p] = "running"
    /\ AllStarted
    /\ task' = [task EXCEPT ![p] = "err"]
    /\ calls' = Append(calls, Event(p, "raise"))
    /\ UNCHANGED << startup_vars, variant, test_queries, i, pc, message, guardrail_check,
                    required_services, services_to_query, task_result,
                    servicenow_results, gti_results, opensearch_results, context,
                    outcome >>

\* gather resolves: run stores each result in its slot (None for an
\* exception) and calls the aggregator
GatherResume ==
    /\ pc = "gather"
    /\ LET order == GatherOrder(variant, required_services)
           results == GatherResults(order, task, task_result)
       IN  /\ GatherDone(order, task)
           /\ CallAggregator(
                 SlotAfterGather("servicenow", order, results, servicenow_results),
                 SlotAfterGather("gti", order, results, gti_results),
                 SlotAfterGather("opensearch", order, results, opensearch_results),
                 calls)
    /\ task' = [p \in Platforms |-> IF task[p] \in {"ok", "err"} THEN "none" ELSE task[p]]
    /\ task_result' = [p \in Platforms |-> None]
    /\ UNCHANGED << startup_vars, variant, test_queries, i, message, guardrail_check,
                    required_services, services_to_query, outcome >>

\* variant of SlotAfterSingle that stores the result in every slot
SlotAfterSingle_EverySlot(p, service_name, result, old) == result

\* the slot of platform p after the single awaited coroutine returned
SlotAfterSingle(p, service_name, result, old) ==
    IF p = service_name THEN result ELSE old

\* the single awaited query_<platform> returns: its slot is set and the
\* aggregator is called
SingleReturn(sp, final_output) ==
    /\ pc = "single"
    /\ sp = SinglePlatform(variant, required_services)
    /\ LET result == QueryResult(sp, message, final_output)
       IN  /\ task[sp] = "running"
           /\ task' = [task EXCEPT ![sp] = "none"]
           /\ CallAggregator(
                 SlotAfterSingle("servicenow", sp, result, servicenow_results),
                 SlotAfterSingle("gti", sp, result, gti_results),
                 SlotAfterSingle("opensearch", sp, result, opensearch_results),
                 Append(calls, Returned(sp, final_output)))
    /\ UNCHANGED << startup_vars, variant, test_queries, i, message, guardrail_check,
                    required_services, services_to_query, task_result, outcome >>

\* the single awaited query_<platform> raises: "await task" is not guarded,
\* the exception reaches the handler of run
SingleRaise ==
    /\ pc = "single"
    /\ LET sp == SinglePlatform(variant, required_services)
       IN  /\ task[sp] = "running"
           /\ task' = [task EXCEPT ![sp] = "none"]
           /\ HandleException(Append(calls, Event(sp, "raise")))
    /\ UNCHANGED << startup_vars, variant, test_queries, message, guardrail_check,
                    required_services, services_to_query, task_result,
                    servicenow_results, gti_results, opensearch_results, context >>

-----------------------------------------------------------------------------
(* Step 3 of script 7: the platforms are awaited one after the other *)

\* determine_required_services returns in script 7
RouterReturnSeq(flags) ==
    /\ pc = "router"
    /\ variant = "seq7"
    /\ flags \subseteq VariantPlatforms(variant)
    /\ required_services' = flags
    /\ LET log == Append(calls, Event("router", "return"))
       IN  IF "servicenow" \in flags
           THEN /\ servicenow_results' = None
                /\ gti_results' = None
                /\ task' = [task EXCEPT !["servicenow"] = "running"]
                /\ calls' = Append(log, Event("servicenow", "call"))
                /\ pc' = "seq_servicenow"
                /\ UNCHANGED << opensearch_results, context >>
           ELSE IF "gti" \in flags
           THEN /\ servicenow_results' = None
                /\ gti_results' = None
                /\ task' = [task EXCEPT !["gti"] = "running"]
                /\ calls' = Append(log, Event("gti", "call"))
                /\ pc' = "seq_gti"
                /\ UNCHANGED << opensearch_results, context >>
           ELSE /\ CallAggregator(None, None, opensearch_results, log)
                /\ UNCHANGED task
    /\ UNCHANGED << startup_vars, variant, test_queries, i, message, guardrail_check,
                    services_to_query, task_result, outcome >>

\* await query_servicenow returns: then GTI if flagged, else the aggregator
SeqServiceNowReturn(final_output) ==
    /\ pc = "seq_servicenow"
    /\ task["servicenow"] = "running"
    /\ LET result == QueryResult("servicenow", message, final_output)
           log == Append(calls, Returned("servicenow", final_output))
       IN  IF "gti" \in required_services
           THEN /\ servicenow_results' = result
                /\ task' = [task EXCEPT !["servicenow"] = "none", !["gti"] = "running"]
                /\ calls' = Append(log, Event("gti", "call"))
                /\ pc' = "seq_gti"
                /\ UNCHANGED << gti_results, opensearch_results, context >>
           ELSE /\ task' = [task EXCEPT !["servicenow"] = "none"]
                /\ CallAggregator(result, gti_results, opensearch_results, log)
    /\ UNCHANGED << startup_vars, variant, test_queries, i, message, guardrail_check,
                    required_services, services_to_query, task_result, outcome >>

\* await query_gti returns: the aggregator is called
SeqGtiReturn(final_output) ==
    /\ pc = "seq_gti"
    /\ task["gti"] = "running"
    /\ task' = [task EXCEPT !["gti"] = "none"]
    /\ CallAggregator(servicenow_results,
                      QueryResult("gti", message, final_output),
                      opensearch_results,
                      Append(calls, Returned("gti", final_output)))
    /\ UNCHANGED << startup_vars, variant, test_queries, i, message, guardrail_check,
                    required_services, services_to_query, task_result, outcome >>

\* an awaited query of script 7 raises: the exception reaches the handler of
\* run; what was not yet queried is not queried
SeqRaise(p) ==
    /\ pc = IF p = "servicenow" THEN "seq_servicenow" ELSE "seq_gti"
    /\ p \in {"servicenow", "gti"}
    /\ task[p] = "running"
    /\ task' = [task EXCEPT ![p] = "none"]
    /\ HandleException(Append(calls, Event(p, "raise")))
    /\ UNCHANGED << startup_vars, variant, test_queries, message, guardrail_check,
                    required_services, services_to_query, task_result,
                    servicenow_results, gti_results, opensearch_results, context >>

-----------------------------------------------------------------------------
(* Step 5: the aggregator / visualizer answers *)

\* the final result is printed, the iteration ends
AggregatorReturn ==
    /\ pc = "aggregate"
    /\ calls' = Append(calls, Event("aggregator", "return"))
    /\ NextIteration("printed")
    /\ UNCHANGED << startup_vars, variant, test_queries, message, guardrail_check,
                    required_services, services_to_query, task, task_result,
                    servicenow_results, gti_results, opensearch_results, context >>

\* the aggregator raises: caught by the handler of run
AggregatorRaise ==
    /\ pc = "aggregate"
    /\ HandleException(Append(calls, Event("aggregator", "raise")))
    /\ UNCHANGED << startup_vars, variant, test_queries, message, guardrail_check,
                    required_services, services_to_query, task, task_result,
                    servicenow_results, gti_results, opensearch_results, context >>

-----------------------------------------------------------------------------

Next ==
    \/ StartQuery
    \/ EndRun
    \/ \E f \in BOOLEAN : GuardrailReturn(f)
    \/ GuardrailRaise
    \/ \E flags \in SUBSET Platforms : RouterReturn(flags)
    \/ RouterRaise
    \/ \E p \in Platforms : TaskStart(p)
    \/ \E p \in Platforms : \E t \in FinalOutputs(p) : TaskReturn(p, t)
    \/ \E p \in Platforms : TaskRaise(p)
    \/ GatherResume
    \/ \E p \in Platforms : \E t \in FinalOutputs(p) : SingleReturn(p, t)
    \/ SingleRaise
    \/ \E flags \in SUBSET Platforms : RouterReturnSeq(flags)
    \/ \E t \in FinalOutputs("servicenow") : SeqServiceNowReturn(t)
    \/ \E t \in FinalOutputs("gti") : SeqGtiReturn(t)
    \/ \E p \in Platforms : SeqRaise(p)
    \/ AggregatorReturn
    \/ AggregatorRaise

Spec == Init /\ [][Next]_vars

\* the steps run and the event loop take on their own, without waiting for
\* the environment: the next iteration of the for loop, the return of run,
\* the first step of a scheduled task, the wake-up after gather resolved
ProgramStep ==
    \/ StartQuery
    \/ EndRun
    \/ \E p \in Platforms : TaskStart(p)
    \/ GatherResume

\* initial states of the progress specifications: the list holds one text
\* repeated (no step of run depends on the text of a query)
FairInit ==
    /\ Init
    /\ \A k \in 1..Len(test_queries) : test_queries[k] = "find incidents for user john"

\* run with its own steps never postponed for ever; the external calls may
\* hang
FairSpec == FairInit /\ [][Next]_vars /\ WF_vars(ProgramStep)

\* the environment answers a call: it returns or raises
GuardrailSettles == (\E f \in BOOLEAN : GuardrailReturn(f)) \/ GuardrailRaise

RouterSettles ==
    \/ \E flags \in SUBSET Platforms : RouterReturn(flags)
    \/ \E flags \in SUBSET Platforms : RouterReturnSeq(flags)
    \/ RouterRaise

PlatformSettles ==
    \/ \E p \in Platforms : \E t \in FinalOutputs(p) : TaskReturn(p, t)
    \/ \E p \in Platforms : TaskRaise(p)
    \/ \E p \in Platforms : \E t \in FinalOutputs(p) : SingleReturn(p, t)
    \/ SingleRaise
    \/ \E t \in FinalOutputs("servicenow") : SeqServiceNowReturn(t)
    \/ \E t \in FinalOutputs("gti") : SeqGtiReturn(t)
    \/ \E p \in Platforms : SeqRaise(p)

AggregatorSettles == AggregatorReturn \/ AggregatorRaise

\* run when, in addition, no external call hangs: while calls are pending
\* one of them is eventually answered
LiveSpec ==
    /\ FairInit /\ [][Next]_vars
    /\ WF_vars(ProgramStep)
    /\ WF_vars(GuardrailSettles)
    /\ WF_vars(RouterSettles)
    /\ WF_vars(PlatformSettles)
    /\ WF_vars(AggregatorSettles)

-----------------------------------------------------------------------------
(* Import of main.py: lines 32-64, before main() *)

\* load_dotenv(dotenv_path="~/.env")
LoadDotenvHome ==
    /\ spc = "load_dotenv"
    /\ environ' = load_dotenv(HomeDotenvPath, FALSE)
    /\ spc' = "check_env"
    /\ UNCHANGED << run_vars, twin_vars, heap_vars, main_vars, lib_vars, dotenv_files, yaml_files, error, _config,
                    _environment, azure_endpoint, api_key, got >>

\* variant of CheckEnv that goes on without ENV
CheckEnv_Fallback ==
    /\ spc = "check_env"
    /\ spc' = "load_config"
    /\ UNCHANGED << run_vars, twin_vars, heap_vars, main_vars, lib_vars, environ, dotenv_files, yaml_files, error, _config,
                    _environment, azure_endpoint, api_key, got >>

\* if os.getenv("ENV") is None: raise ValueError
CheckEnv ==
    /\ spc = "check_env"
    /\ IF getenv("ENV") = NoneValue
       THEN spc' = "raised" /\ error' = "ValueError"
       ELSE spc' = "load_config" /\ UNCHANGED error
    /\ UNCHANGED << run_vars, twin_vars, heap_vars, main_vars, lib_vars, environ, dotenv_files, yaml_files, _config,
                    _environment, azure_endpoint, api_key, got >>

\* config_manager.load_config()
LoadConfig ==
    /\ spc = "load_config"
    /\ LET r == load_config(NoneValue)
       IN  /\ _config' = r._config
           /\ _environment' = r._environment
           /\ IF r.raised # ""
              THEN spc' = "raised" /\ error' = r.raised
              ELSE spc' = "load_dotenv_env" /\ UNCHANGED error
    /\ UNCHANGED << run_vars, twin_vars, heap_vars, main_vars, lib_vars, environ, dotenv_files, yaml_files,
                    azure_endpoint, api_key, got >>

\* load_dotenv(dotenv_path="~/.env.<environment>", override=True)
LoadDotenvEnv ==
    /\ spc = "load_dotenv_env"
    /\ environ' = load_dotenv(EnvDotenvPath(environment_property), TRUE)
    /\ spc' = "check_azure"
    /\ UNCHANGED << run_vars, twin_vars, heap_vars, main_vars, lib_vars, dotenv_files, yaml_files, error, _config,
                    _environment, azure_endpoint, api_key, got >>

\* the two os.getenv and the two checks that follow them
CheckAzure ==
    /\ spc = "check_azure"
    /\ azure_endpoint' = getenv("AZURE_OPENAI_ENDPOINT")
    /\ api_key' = getenv("AZURE_OPENAI_API_KEY")
    /\ IF getenv("AZURE_OPENAI_ENDPOINT") = NoneValue \/ getenv("AZURE_OPENAI_API_KEY") = NoneValue
       THEN spc' = "raised" /\ error' = "ValueError"
       ELSE spc' = "construct" /\ UNCHANGED error
    /\ UNCHANGED << run_vars, twin_vars, heap_vars, main_vars, lib_vars, environ, dotenv_files, yaml_files, _config,
                    _environment, got >>

\* AsyncAzureOpenAI(...) and OpenAIChatCompletionsModel(...): the library
\* accepts the arguments or raises
ConstructClient(accepted) ==
    /\ spc = "construct"
    /\ IF accepted
       THEN spc' = "main" /\ UNCHANGED error
       ELSE spc' = "raised" /\ error' = "OpenAIError"
    /\ UNCHANGED << run_vars, twin_vars, heap_vars, main_vars, lib_vars, environ, dotenv_files, yaml_files, _config,
                    _environment, azure_endpoint, api_key, got >>

\* config_manager.get(key_path, default), at any time after the import of
\* config_manager
Get(key_path, default) ==
    /\ LET r == get(key_path, default)
       IN  got' = [called |-> TRUE, key_path |-> key_path, default |-> default,
                   config |-> _config, raised |-> r.raised, value |-> r.value]
    /\ UNCHANGED << run_vars, twin_vars, heap_vars, main_vars, lib_vars, environ, dotenv_files, yaml_files, spc, error,
                    _config, _environment, azure_endpoint, api_key >>

\* the process starts: config_manager was constructed (_config = {},
\* _environment = None), main.py is at its first statement
ConfigInit ==
    /\ PipelineInit
    /\ variant = "main"
    /\ test_queries = << "find incidents for user john" >>
    /\ \E set \in SUBSET EnvNames :
          environ = [n \in EnvNames |-> IF n \in set THEN EnvValue(n) ELSE NoneValue]
    /\ \E home \in HomeDotenvs, env \in EnvDotenvs :
          dotenv_files = (HomeDotenvPath :> home) @@ (EnvDotenvPath("development") :> env)
    /\ \E base \in BaseContents \cup {Missing}, overlay \in OverlayContents \cup {Missing} :
          yaml_files = (base_config_path :> base)
                           @@ (env_config_path("development") :> overlay)
    /\ spc = "load_dotenv"
    /\ error = ""
    /\ _config = Dict(<< >>)
    /\ _environment = NoneValue
    /\ azure_endpoint = NoneValue
    /\ api_key = NoneValue
    /\ got = NotCalled
    /\ ServersNotStarted
    /\ last_load = NoLoad
    /\ first_run = NoRun
    /\ HeapEmpty

ConfigNext ==
    \/ LoadDotenvHome
    \/ CheckEnv
    \/ LoadConfig
    \/ LoadDotenvEnv
    \/ CheckAzure
    \/ \E accepted \in BOOLEAN : ConstructClient(accepted)
    \/ \E key_path \in KeyPaths, default \in Defaults : Get(key_path, default)

ConfigSpec == ConfigInit /\ [][ConfigNext]_vars

-----------------------------------------------------------------------------
(* ConfigManager used by a client of the class: any sequence of load_config *)
(* and get calls on config_manager                                         *)

\* the environments a client names, and None for "not given"
Environments == { NoneValue, Scalar("development"), Scalar("production") }

\* what production.yaml may hold
ProductionContents ==
    { Dict(K("b") :> Dict(K("x") :> Scalar("1"))),
      Dict(K("a") :> Dict(K("z") :> Scalar("9"))) }

\* config_manager.load_config(environment): an exception it raises reaches
\* the caller, the fields keep what was assigned before the raise
LoadConfigCall(environment) ==
    /\ LET r == load_config(environment)
       IN  /\ _config' = r._config
           /\ _environment' = r._environment
           /\ error' = r.raised
    /\ last_load' = [called |-> TRUE, environment |-> environment,
                     prior_config |-> _config, prior_environment |-> _environment]
    /\ UNCHANGED << run_vars, twin_vars, heap_vars, main_vars, environ, dotenv_files, yaml_files, spc,
                    azure_endpoint, api_key, got >>

\* config_manager was imported (ConfigManager.__init__ ran); the process
\* environment and the files are what they are
ManagerInit ==
    /\ PipelineInit
    /\ variant = "workflow"
    /\ test_queries = << "find incidents for user john" >>
    /\ \E env \in Environments :
          environ = [n \in EnvNames |-> IF n = "ENV" THEN env ELSE NoneValue]
    /\ dotenv_files = (HomeDotenvPath :> << >>)
    /\ \E base \in BaseContents \cup {Missing},
          development \in OverlayContents \cup {Missing},
          production \in ProductionContents \cup {Missing} :
          yaml_files = (base_config_path :> base)
                           @@ (env_config_path("development") :> development)
                           @@ (env_config_path("production") :> production)
    /\ spc = "import_config_manager"
    /\ error = ""
    /\ _config = Dict(<< >>)
    /\ _environment = NoneValue
    /\ azure_endpoint = NoneValue
    /\ api_key = NoneValue
    /\ got = NotCalled
    /\ ServersNotStarted
    /\ last_load = NoLoad
    /\ first_run = NoRun
    /\ HeapEmpty

ManagerNext ==
    \/ \E environment \in Environments : LoadConfigCall(environment)
    \/ \E key_path \in KeyPaths, default \in Defaults : Get(key_path, default)

ManagerSpec == ManagerInit /\ [][ManagerNext]_vars

-----------------------------------------------------------------------------
(* main() of main.py: lines 473-514 *)

\* "async with MCPServerStdio(...) as gti_server": the server connects, or
\* the start fails and main() ends with the exception
OpenGtiServer(connected) ==
    /\ mpc = "start"
    /\ IF connected
       THEN /\ server' = [server EXCEPT !["gti"] = "open"]
            /\ opens' = [opens EXCEPT !["gti"] = @ + 1]
            /\ mpc' = "gti_open"
       ELSE /\ mpc' = "raised"
            /\ UNCHANGED << server, opens >>
    /\ UNCHANGED << run_vars, twin_vars, heap_vars, lib_vars, environ, dotenv_files, yaml_files, spc, error,
                    _config, _environment, azure_endpoint, api_key, got,
                    run_servers >>

\* variant of OpenServiceNowServer that connects the GTI server once more
OpenServiceNowServer_Reconnects(connected) ==
    /\ mpc = "gti_open"
    /\ IF connected
       THEN /\ server' = [server EXCEPT !["servicenow"] = "open"]
            /\ opens' = [opens EXCEPT !["servicenow"] = @ + 1, !["gti"] = @ + 1]
            /\ run_servers' = [s \in Servers |-> Handle(s, opens'[s])]
            /\ mpc' = "running"
       ELSE /\ server' = [server EXCEPT !["gti"] = "closed"]
            /\ mpc' = "raised"
            /\ UNCHANGED << opens, run_servers >>
    /\ UNCHANGED << run_vars, twin_vars, heap_vars, lib_vars, environ, dotenv_files, yaml_files, spc, error,
                    _config, _environment, azure_endpoint, api_key, got >>

\* "MCPServerStdio(...) as servicenow_server": the server connects and run
\* is called with the two handles, or the start fails, the GTI connection
\* is closed by its __aexit__ and main() ends with the exception
OpenServiceNowServer(connected) ==
    /\ mpc = "gti_open"
    /\ IF connected
       THEN /\ server' = [server EXCEPT !["servicenow"] = "open"]
            /\ opens' = [opens EXCEPT !["servicenow"] = @ + 1]
            /\ run_servers' = [s \in Servers |-> Handle(s, opens'[s])]
            /\ mpc' = "running"
       ELSE /\ server' = [server EXCEPT !["gti"] = "closed"]
            /\ mpc' = "raised"
            /\ UNCHANGED << opens, run_servers >>
    /\ UNCHANGED << run_vars, twin_vars, heap_vars, lib_vars, environ, dotenv_files, yaml_files, spc, error,
                    _config, _environment, azure_endpoint, api_key, got >>

\* a step of run, called inside the "async with"
RunStep == mpc = "running" /\ Next

\* "await run(...)" returns and the trace block is left
RunReturns ==
    /\ mpc = "running"
    /\ pc = "done"
    /\ mpc' = "returned"
    /\ UNCHANGED << run_vars, twin_vars, heap_vars, lib_vars, environ, dotenv_files, yaml_files, spc, error,
                    _config, _environment, azure_endpoint, api_key, got,
                    server, opens, run_servers >>

\* the "async with" is left: the contexts exit in reverse order
CloseServiceNowServer ==
    /\ mpc = "returned"
    /\ server' = [server EXCEPT !["servicenow"] = "closed"]
    /\ mpc' = "servicenow_closed"
    /\ UNCHANGED << run_vars, twin_vars, heap_vars, lib_vars, environ, dotenv_files, yaml_files, spc, error,
                    _config, _environment, azure_endpoint, api_key, got,
                    opens, run_servers >>

CloseGtiServer ==
    /\ mpc = "servicenow_closed"
    /\ server' = [server EXCEPT !["gti"] = "closed"]
    /\ mpc' = "exited"
    /\ UNCHANGED << run_vars, twin_vars, heap_vars, lib_vars, environ, dotenv_files, yaml_files, spc, error,
                    _config, _environment, azure_endpoint, api_key, got,
                    opens, run_servers >>

\* asyncio.run(main()) after the import of main.py went through
MainInit ==
    /\ PipelineInit
    /\ variant = "main"
    /\ StartupCompleted
    /\ ServersNotStarted
    /\ last_load = NoLoad
    /\ first_run = NoRun
    /\ HeapEmpty

MainNext ==
    \/ \E connected \in BOOLEAN : OpenGtiServer(connected)
    \/ \E connected \in BOOLEAN : OpenServiceNowServer(connected)
    \/ RunStep
    \/ RunReturns
    \/ CloseServiceNowServer
    \/ CloseGtiServer

MainSpec == MainInit /\ [][MainNext]_vars

(* _merge_configs on dict objects: lines 66-85 of config_manager.py.       *)
(* A dict is an object in memory; a value stored under a key is a scalar   *)
(* or the address of another dict, so that two dicts can share a nested    *)
(* dict and a write to one object is seen through every reference to it.   *)

\* what a dict holds under a key: a scalar, or a reference to a dict
ScalarCell(s) == [tag |-> "scalar", val |-> s, addr |-> 0]
Ref(a) == [tag |-> "ref", val |-> "", addr |-> a]

\* isinstance(x, dict) for what a dict holds under a key
IsDictCell(cell) == cell.tag = "ref"

\* obj[key] = cell
SetItem(obj, key, cell) ==
    [k \in DOMAIN obj \cup {key} |-> IF k = key THEN cell ELSE obj[k]]

RECURSIVE Store(_, _)
RECURSIVE StoreItems(_, _, _, _)
\* a dict value built in memory: its nested dicts first, then the dict itself
StoreItems(h, items, todo, obj) ==
    IF todo = {} THEN [heap |-> Append(h, obj), addr |-> Len(h) + 1]
    ELSE LET key == CHOOSE k \in todo : TRUE
         IN  IF items[key].tag = "dict"
             THEN LET r == Store(h, items[key])
                  IN  StoreItems(r.heap, items, todo \ {key},
                                 SetItem(obj, key, Ref(r.addr)))
             ELSE StoreItems(h, items, todo \ {key},
                             SetItem(obj, key, ScalarCell(items[key].val)))

Store(h, value) == StoreItems(h, value.items, DOMAIN value.items, << >>)

RECURSIVE Unfold(_, _)
\* the value of the dict at an address, nested dicts included
Unfold(h, a) ==
    Dict([key \in DOMAIN h[a] |->
            IF IsDictCell(h[a][key]) THEN Unfold(h, h[a][key].addr)
            ELSE Scalar(h[a][key].val)])

RECURSIVE _merge_configs_objects(_, _, _)
RECURSIVE merge_items(_, _, _, _)
\* for key, value in override.items(): ... with result the dict at address r
\* and todo the keys of override not yet visited
merge_items(h, r, override, todo) ==
    IF todo = {} THEN [heap |-> h, addr |-> r]
    ELSE LET key == CHOOSE k \in todo : TRUE
             value == h[override][key]
         IN  IF /\ key \in DOMAIN h[r]
                /\ IsDictCell(h[r][key])
                /\ IsDictCell(value)
             THEN LET m == _merge_configs_objects(h, h[r][key].addr, value.addr)
                  IN  merge_items([m.heap EXCEPT ![r] = SetItem(@, key, Ref(m.addr))],
                                  r, override, todo \ {key})
             ELSE merge_items([h EXCEPT ![r] = SetItem(@, key, value)],
                              r, override, todo \ {key})

\* variant of _merge_configs_objects with "result = base" (no copy)
_merge_configs_objects_NoCopy(h, base, override) ==
    merge_items(h, base, override, DOMAIN h[override])

\* variant of _merge_configs_objects with "result = {}" in place of the copy
_merge_configs_objects_FromEmpty(h, base, override) ==
    merge_items(Append(h, << >>), Len(h) + 1, override, DOMAIN h[override])

\* result = base.copy(); the loop; return result. The heap after the call
\* and the address of the dict returned
_merge_configs_objects(h, base, override) ==
    merge_items(Append(h, h[base]), Len(h) + 1, override, DOMAIN h[override])

MergeKeys == { K("a"), K("b") }

MergeScalars == { Scalar("1"), Scalar("2") }

\* the dicts with keys among MergeKeys and values among the given ones
DictsOver(values) ==
    { Dict(items) : items \in UNION { [S -> values] : S \in SUBSET MergeKeys } }

\* the configurations _merge_configs is called with: dicts of scalars and of
\* dicts of scalars
Configurations == DictsOver(MergeScalars \cup DictsOver(MergeScalars))

\* the arguments a call is made with
Arguments(which) ==
    CASE which = "base_override" -> [base |-> roots.base, override |-> roots.override]
      [] which = "base_empty" -> [base |-> roots.base, override |-> roots.empty]
      [] which = "empty_override" -> [base |-> roots.empty, override |-> roots.override]
      [] which = "result_override" ->
            [base |-> merges[Len(merges)].result, override |-> roots.override]

\* merged = self._merge_configs(base, override), for the arguments chosen
MergeCall(which) ==
    /\ \/ merges = << >> /\ which # "result_override"
       \/ /\ Len(merges) = 1
          /\ merges[1].which = "base_override"
          /\ which = "result_override"
    /\ LET args == Arguments(which)
           m == _merge_configs_objects(heap, args.base, args.override)
       IN  /\ heap' = m.heap
           /\ merges' = Append(merges,
                  [which |-> which, base |-> args.base, override |-> args.override,
                   result |-> m.addr,
                   base_before |-> Unfold(heap, args.base),
                   override_before |-> Unfold(heap, args.override),
                   heap_before |-> heap])
    /\ UNCHANGED << run_vars, twin_vars, main_vars, lib_vars, environ, dotenv_files,
                    yaml_files, spc, error, _config, _environment, azure_endpoint,
                    api_key, got, roots >>

\* a caller holds a base configuration, an override and an empty dict; no
\* call was made yet
MergeInit ==
    /\ PipelineInit
    /\ variant = "workflow"
    /\ test_queries = << "find incidents for user john" >>
    /\ environ = [n \in EnvNames |-> NoneValue]
    /\ dotenv_files = (HomeDotenvPath :> << >>)
    /\ yaml_files = (base_config_path :> Missing)
    /\ spc = "import_config_manager"
    /\ error = ""
    /\ _config = Dict(<< >>)
    /\ _environment = NoneValue
    /\ azure_endpoint = NoneValue
    /\ api_key = NoneValue
    /\ got = NotCalled
    /\ ServersNotStarted
    /\ last_load = NoLoad
    /\ first_run = NoRun
    /\ \E b \in Configurations, o \in Configurations :
          LET sb == Store(<< >>, b)
              so == Store(sb.heap, o)
              se == Store(so.heap, Dict(<< >>))
          IN  /\ heap = se.heap
              /\ roots = [base |-> sb.addr, override |-> so.addr, empty |-> se.addr]
    /\ merges = << >>

MergeNext ==
    \E which \in {"base_override", "base_empty", "empty_override", "result_override"} :
        MergeCall(which)

MergeSpec == MergeInit /\ [][MergeNext]_vars

TypeOK ==
    /\ variant \in Variants
    /\ pc \in {"loop", "guardrail", "router", "gather", "single",
               "seq_servicenow", "seq_gti", "aggregate", "done"}
    /\ i \in 1..(Len(test_queries) + 1)
    /\ required_services \subseteq VariantPlatforms(variant)
    /\ \A p \in Platforms : task[p] \in {"none", "scheduled", "running", "ok", "err"}

-----------------------------------------------------------------------------
(* Observations on the record of external calls of the current query.      *)
(* While pc = "loop" or "done" the record, the slots and message are those *)
(* of the query that just ended.                                           *)

Count(kind, ev) ==
    Cardinality({ k \in 1..Len(calls) : calls[k].kind = kind /\ calls[k].ev = ev })

Invoked == { p \in Platforms : Count(p, "call") > 0 }
Raised == { p \in Platforms : Count(p, "raise") > 0 }
Succeeded == { p \in Platforms : Count(p, "return") > 0 }

GuardrailReturned == Count("guardrail", "return") > 0
RouterReturned == Count("router", "return") > 0

\* the text the call of platform p returned
ReturnedText(p) ==
    calls[CHOOSE k \in 1..Len(calls) : calls[k].kind = p /\ calls[k].ev = "return"].val

\* position of an event in the record (0 if absent)
Pos(kind, ev) ==
    IF Count(kind, ev) = 0 THEN 0
    ELSE CHOOSE k \in 1..Len(calls) : calls[k].kind = kind /\ calls[k].ev = ev

Slot(p) ==
    CASE p = "servicenow" -> servicenow_results
      [] p = "gti" -> gti_results
      [] p = "opensearch" -> opensearch_results

Heading(p) ==
    CASE p = "servicenow" -> "ServiceNow Results:\n"
      [] p = "gti" -> "GTI Results:\n"
      [] p = "opensearch" -> "OpenSearch Results:\n"

HeadingPositions(p) == { k \in 1..Len(context) : context[k] = Heading(p) }

\* the scripts whose fan-out uses asyncio.gather
GatherVariant == variant \in {"workflow", "main"}

\* the platform phase of the current query is over
PastFanOut == pc \in {"aggregate", "loop", "done"}

\* the current query has ended
QueryEnded == pc \in {"loop", "done"}

-----------------------------------------------------------------------------
(* Two executions of run, one after the other. Each execution builds its   *)
(* state anew, so the second starts from the state run starts from; what   *)
(* the first did is kept in first_run. The second execution is given       *)
(* another query text by the same script, or the same text by workflow.py  *)
(* after main.py.                                                          *)

IsCall(e) == e.ev = "call"

\* the kinds of the external calls in the record, in the order they were issued
Issued ==
    [k \in 1..Len(SelectSeq(calls, IsCall)) |-> SelectSeq(calls, IsCall)[k].kind]

\* the calls of the record that settled, each with the way it settled
Settled ==
    { [kind |-> calls[k].kind, ev |-> calls[k].ev] :
        k \in { j \in 1..Len(calls) : calls[j].ev # "call" } }

\* what the execution of run that is now over did with its single query
ThisRun(twin) ==
    [recorded |-> TRUE, twin |-> twin,
     verdict_known |-> GuardrailReturned,
     verdict |-> GuardrailReturned /\ guardrail_check,
     flags_known |-> RouterReturned,
     flags |-> IF RouterReturned THEN required_services ELSE {},
     settled |-> Settled,
     issued |-> Issued,
     outcome |-> outcome[1],
     present |-> { p \in Platforms : Slot(p).tag = "List" }]

OtherText(text) == CHOOSE t \in QueryTexts : t # text

\* the script is run once more: with another query text (twin = "text"), or
\* workflow.py is run on the query main.py was run on (twin = "variant")
SecondRun(twin) ==
    /\ pc = "done"
    /\ ~first_run.recorded
    /\ twin = "variant" => variant = "main"
    /\ first_run' = ThisRun(twin)
    /\ variant' = IF twin = "variant" THEN "workflow" ELSE variant
    /\ test_queries' = IF twin = "text" THEN << OtherText(test_queries[1]) >>
                       ELSE test_queries
    /\ i' = 1
    /\ pc' = "loop"
    /\ message' = ""
    /\ guardrail_check' = FALSE
    /\ required_services' = {}
    /\ services_to_query' = << >>
    /\ task' = [p \in Platforms |-> "none"]
    /\ task_result' = [p \in Platforms |-> None]
    /\ servicenow_results' = Unbound
    /\ gti_results' = Unbound
    /\ opensearch_results' = Unbound
    /\ context' = << >>
    /\ calls' = << >>
    /\ outcome' = [k \in {1} |-> "pending"]
    /\ UNCHANGED << environ, dotenv_files, yaml_files, spc, error, _config,
                    _environment, azure_endpoint, api_key, got, main_vars,
                    lib_vars, heap_vars >>

\* run is given a single query (as in main.py, lines 391-393)
TwinInit ==
    /\ Init
    /\ Len(test_queries) = 1

TwinNext ==
    \/ Next
    \/ \E twin \in {"text", "variant"} : SecondRun(twin)

TwinSpec == TwinInit /\ [][TwinNext]_vars

-----------------------------------------------------------------------------
(* C1: in every variant, when the guardrail returns a verdict with         *)
(* has_sensitive_information = true, no router call, no platform query and *)
(* no aggregator call is made for that query, and the query is skipped.    *)
C1_GuardrailGate ==
    (GuardrailReturned /\ guardrail_check) =>
        /\ \A k \in 1..Len(calls) : calls[k].kind = "guardrail"
        /\ QueryEnded
        /\ outcome[i - 1] = "skipped"

C1_Witness ==
    /\ GuardrailReturned /\ guardrail_check
    /\ pc = "loop" /\ i = 2 /\ Len(test_queries) = 2
    /\ outcome[1] = "skipped"

(* C2: in workflow.py (8 flag combinations) and main.py (4 combinations),  *)
(* once the router returned, only flagged platforms are queried, each at   *)
(* most once, and when the fan-out is over exactly the flagged platforms   *)
(* have been queried.                                                      *)
C2_ExactlyFlaggedInvoked ==
    (GatherVariant /\ RouterReturned) =>
        /\ \A p \in Platforms : Count(p, "call") <= 1
        /\ Invoked \subseteq required_services
        /\ PastFanOut => Invoked = required_services

C2_Witness ==
    /\ variant = "workflow" /\ RouterReturned
    /\ required_services = {"gti", "opensearch"}
    /\ pc = "aggregate"
    /\ Invoked = {"gti", "opensearch"}

(* C3: in workflow.py and main.py, when two or more platforms are selected *)
(* and exactly one of their calls raises, then after the join the raising  *)
(* platform's slot is None, every other selected platform's slot holds the *)
(* result its own call returned, and the aggregator is invoked exactly     *)
(* once.                                                                   *)
C3_PartialFailureIsolation ==
    (/\ GatherVariant /\ RouterReturned
     /\ Cardinality(required_services) >= 2
     /\ Cardinality(Raised) = 1
     /\ PastFanOut) =>
        /\ \A p \in Raised : Slot(p) = None
        /\ \A p \in required_services \ Raised :
              /\ p \in Succeeded
              /\ Slot(p) = QueryResult(p, message, ReturnedText(p))
        /\ Count("aggregator", "call") = 1

C3_Witness ==
    /\ variant = "workflow" /\ RouterReturned
    /\ required_services = Platforms
    /\ Raised = {"gti"}
    /\ pc = "aggregate"
    /\ gti_results = None
    /\ servicenow_results # None /\ opensearch_results # None

(* C4: for every non-empty selection, the single-platform case included,   *)
(* if every selected platform's call raises, the aggregator is still       *)
(* invoked exactly once for the query, with every platform slot absent.    *)
(* Stated for workflow.py and main.py; the unguarded "await task" of the   *)
(* single-platform branch refutes it.                                      *)
C4_AllFail_AggregatorStillInvoked ==
    (/\ GatherVariant /\ RouterReturned
     /\ required_services # {}
     /\ Raised = required_services
     /\ QueryEnded) =>
        /\ Count("aggregator", "call") = 1
        /\ \A p \in VariantPlatforms(variant) : Slot(p) = None

(* C5: in every variant, script 7 included, a failure of one platform's    *)
(* query is recovered locally: the remaining selected platforms are still  *)
(* queried and the aggregator is still called for that query.  Script 7    *)
(* and the single-platform branches refute it.                             *)
C5_FailureRecoveredLocally ==
    (RouterReturned /\ Raised # {} /\ QueryEnded) =>
        /\ Invoked = required_services
        /\ Count("aggregator", "call") = 1

(* C6: in workflow.py and main.py, when more than one platform is          *)
(* selected, run does not leave the join (and so does not call the         *)
(* aggregator) before every selected platform's call was issued and has    *)
(* returned or raised; no call is left scheduled or running.               *)
C6_JoinWaitsForAll ==
    (/\ GatherVariant /\ RouterReturned
     /\ Cardinality(required_services) > 1
     /\ (pc # "gather" \/ Count("aggregator", "call") > 0)) =>
        /\ \A p \in required_services :
              /\ Count(p, "call") = 1
              /\ Count(p, "return") + Count(p, "raise") = 1
        /\ \A p \in Platforms : task[p] \notin {"scheduled", "running"}

\* a call raised, a call issued with it returned later, then the aggregator
C6_Witness ==
    /\ variant = "main" /\ pc = "aggregate"
    /\ required_services = {"servicenow", "gti"}
    /\ Raised = {"servicenow"}
    /\ Pos("servicenow", "raise") < Pos("gti", "return")
    /\ Pos("gti", "return") < Pos("aggregator", "call")

(* C7: in workflow.py and main.py, when two or more platforms are selected *)
(* their calls are in flight together: while a selected call is still to   *)
(* be issued no selected call has settled, and once all are issued every   *)
(* call in flight can be the next to return or to raise, whatever the      *)
(* state of the others.                                                    *)
C7_CallsInFlightTogether ==
    pc = "gather" =>
        /\ (\E p \in Platforms : task[p] = "scheduled") =>
              \A k \in 1..Len(calls) :
                 calls[k].kind \in Platforms => calls[k].ev = "call"
        /\ (\A q \in Platforms : task[q] # "scheduled") =>
              \A p \in Platforms : task[p] = "running" =>
                 /\ ENABLED TaskRaise(p)
                 /\ ENABLED (\E t \in FinalOutputs(p) : TaskReturn(p, t))

\* the call issued last settles first while the two issued before it are in flight
C7_Witness ==
    /\ variant = "workflow" /\ pc = "gather"
    /\ required_services = Platforms
    /\ task["servicenow"] = "running" /\ task["gti"] = "running"
    /\ task["opensearch"] = "ok"

(* C8: the context handed to the aggregator / visualizer contains the      *)
(* original query and, for each platform P, a section headed with P's      *)
(* name that lists the text of each of P's results if and only if P's slot *)
(* is present, which is the case exactly when P was selected and its call  *)
(* returned; other platforms contribute no section.                        *)
C8_ContextSections ==
    Count("aggregator", "call") > 0 =>
        /\ \E k \in 1..Len(context) : context[k] = message
        /\ \A p \in Platforms :
              IF Slot(p).tag = "List"
              THEN /\ Cardinality(HeadingPositions(p)) = 1
                   /\ \A h \in HeadingPositions(p) :
                         /\ \A j \in 1..Len(Slot(p).list) :
                               /\ context[h + 3 * j - 2] = "- "
                               /\ context[h + 3 * j - 1] = Slot(p).list[j].result
                               /\ context[h + 3 * j] = "\n"
                         /\ context[h + 3 * Len(Slot(p).list) + 1] = "\n"
              ELSE HeadingPositions(p) = {}
        /\ \A p \in Platforms :
              Slot(p).tag = "List" <=> (p \in required_services /\ p \in Succeeded)

\* the scenario of the specification: ServiceNow alone, answering "INC001: open"
C8_Witness ==
    /\ variant = "main" /\ pc = "aggregate"
    /\ message = "find incidents for user john"
    /\ required_services = {"servicenow"}
    /\ \E k \in 1..Len(context) : context[k] = "INC001: open"
    /\ HeadingPositions("servicenow") # {}
    /\ HeadingPositions("gti") = {}

(* C9: when the router returns a decision with every flag false, no        *)
(* platform query is invoked, nothing raises before the aggregator, and    *)
(* the aggregator / visualizer is invoked exactly once, in the same step,  *)
(* with a context that has no platform section.                            *)
C9_NothingSelected ==
    (RouterReturned /\ required_services = {}) =>
        /\ Invoked = {}
        /\ PastFanOut
        /\ Count("aggregator", "call") = 1
        /\ \A k \in 1..Len(calls) : calls[k].ev = "raise" => calls[k].kind = "aggregator"
        /\ \A p \in Platforms : HeadingPositions(p) = {}

C9_Witness ==
    /\ variant = "workflow" /\ pc = "aggregate"
    /\ RouterReturned /\ required_services = {}
    /\ context = << "Original Query: ", message, "\n\n" >>

Rank(kind) ==
    CASE kind = "guardrail" -> 1
      [] kind = "router" -> 2
      [] kind \in Platforms -> 3
      [] kind = "aggregator" -> 4

(* C10: for each query the external calls are issued in the order          *)
(* guardrail, router, platform queries, aggregator; a step is issued only  *)
(* after the calls of the earlier steps have settled (returned, or, for a  *)
(* platform query of the fan-out, raised); each of guardrail, router, each *)
(* platform query and aggregator is called at most once per query, and a   *)
(* query that ended is never started again.                                *)
C10_FixedOrderOnce ==
    /\ \A kind \in {"guardrail", "router", "aggregator"} \cup Platforms :
          /\ Count(kind, "call") <= 1
          /\ Count(kind, "return") + Count(kind, "raise") <= Count(kind, "call")
    /\ \A j, k \in 1..Len(calls) :
          (j < k /\ calls[k].ev = "call" /\ Rank(calls[j].kind) < Rank(calls[k].kind)) =>
              /\ calls[j].ev = "call" =>
                    \E m \in (j + 1)..(k - 1) :
                       calls[m].kind = calls[j].kind /\ calls[m].ev # "call"
              /\ calls[j].ev = "raise" => calls[j].kind \in Platforms
    /\ \A j, k \in 1..Len(calls) :
          j < k => Rank(calls[j].kind) <= Rank(calls[k].kind)
    /\ \A k \in 1..Len(test_queries) : outcome[k] = "pending" <=> k >= i

C10_Witness ==
    /\ variant = "workflow" /\ pc = "aggregate"
    /\ required_services = Platforms
    /\ Raised = {"servicenow"}
    /\ i = 2
    /\ Pos("guardrail", "return") < Pos("router", "call")
    /\ Pos("router", "return") < Pos("servicenow", "call")
    /\ Pos("opensearch", "return") < Pos("aggregator", "call")

(* C11: a guardrail trip on query k does not stop the run: once query k    *)
(* was skipped and a query k+1 exists, run does not end there and the      *)
(* guardrail check of query k+1 is eventually invoked, as the first call   *)
(* of the same pipeline.                                                   *)
C11_SkipThenNextQuery ==
    \A k \in 1..MaxQueries :
        (/\ k < Len(test_queries)
         /\ outcome[k] = "skipped"
         /\ outcome[k + 1] = "pending"
         /\ i = k + 1
         /\ pc \in {"loop", "done"})
        ~> (i = k + 1 /\ pc = "guardrail" /\ calls = << Event("guardrail", "call") >>)

C11_Witness ==
    /\ Len(test_queries) = 2
    /\ outcome[1] = "skipped"
    /\ i = 2 /\ pc = "guardrail"
    /\ calls = << Event("guardrail", "call") >>

\* every call issued in the record has returned or raised
AllSettledInRecord ==
    \A kind \in {"guardrail", "router", "aggregator"} \cup Platforms :
        Count(kind, "call") = Count(kind, "return") + Count(kind, "raise")

(* C12: if the aggregator / visualizer call raises for query k, the        *)
(* handler of run catches it: the transcript of query k shows the error    *)
(* and no final result, run does not end there, and query k+1 (if any) is  *)
(* the next to be started.                                                 *)
C12_AggregatorFailureHandled ==
    Count("aggregator", "raise") > 0 =>
        /\ i >= 2
        /\ outcome[i - 1] = "error"
        /\ IF i <= Len(test_queries)
           THEN pc = "loop" /\ outcome[i] = "pending" /\ ENABLED StartQuery
           ELSE pc \in {"loop", "done"}

C12_Witness ==
    /\ Count("aggregator", "raise") > 0
    /\ Len(test_queries) = 2 /\ i = 2 /\ pc = "loop"
    /\ outcome = << "error", "pending" >>

(* C13: if the guardrail call raises, it is not retried (the guardrail was *)
(* called exactly once for that query), the exception reaches the handler  *)
(* of run, and no router, platform or aggregator call is made for that     *)
(* query.                                                                  *)
C13_GuardrailFailurePropagates ==
    Count("guardrail", "raise") > 0 =>
        /\ calls = << Event("guardrail", "call"), Event("guardrail", "raise") >>
        /\ QueryEnded
        /\ outcome[i - 1] = "error"

C13_Witness ==
    /\ Count("guardrail", "raise") > 0
    /\ variant = "workflow" /\ pc = "loop" /\ i = 2
    /\ outcome[1] = "error"

(* C14: queries are processed one at a time: between two queries and while *)
(* the guardrail, router or aggregator call of a query is awaited no       *)
(* platform call is in flight; a platform call in flight was issued for    *)
(* the current query; the next query is started only when every call of    *)
(* the query before it has settled.                                        *)
C14_OneQueryAtATime ==
    /\ pc \in {"loop", "done", "guardrail", "router", "aggregate"} =>
          \A p \in Platforms : task[p] \notin {"scheduled", "running"}
    /\ \A p \in Platforms : task[p] = "running" =>
          /\ Count(p, "call") = 1
          /\ Count(p, "return") + Count(p, "raise") = 0
    /\ pc \in {"loop", "done"} => AllSettledInRecord
    /\ pc = "guardrail" => calls = << Event("guardrail", "call") >>

\* the second query starts after a fan-out of the first in which a call raised
C14_Witness ==
    /\ variant = "workflow" /\ i = 2 /\ pc = "guardrail"
    /\ required_services = Platforms
    /\ servicenow_results = None /\ gti_results # None
    /\ outcome[1] = "printed"

\* a call of this kind was issued for the current query and has not settled
Unsettled(kind) == Count(kind, "call") > Count(kind, "return") + Count(kind, "raise")

TerminalOutcomes == {"skipped", "printed", "error"}

(* C15 as stated: run terminates with one terminal outcome per query when  *)
(* every call settles, and while any external call of query k (guardrail,  *)
(* router, platform query or aggregator) is unsettled the aggregator of    *)
(* query k has not been invoked and no later query has been started.  The  *)
(* part checked here is the second one; an unsettled aggregator call       *)
(* refutes it.                                                             *)
C15_Original_HangBeforeAggregator ==
    (\E kind \in {"guardrail", "router", "aggregator"} \cup Platforms : Unsettled(kind)) =>
        /\ Count("aggregator", "call") = 0
        /\ ~QueryEnded

\* while a guardrail, router or platform call is unsettled the aggregator
\* was not invoked; while any call is unsettled the query has not ended
HangStalls ==
    /\ (\E kind \in {"guardrail", "router"} \cup Platforms : Unsettled(kind)) =>
          Count("aggregator", "call") = 0
    /\ (\E kind \in {"guardrail", "router", "aggregator"} \cup Platforms : Unsettled(kind)) =>
          /\ ~QueryEnded
          /\ outcome[i] = "pending"

(* C15 (amended): when every external call eventually returns or raises,   *)
(* run terminates for a finite list with every query at exactly one        *)
(* terminal outcome (skipped, final result printed, error logged), set     *)
(* once; while a guardrail, router or platform call of query k is          *)
(* unsettled the aggregator of query k is not invoked, and while any       *)
(* external call of query k, the aggregator's included, is unsettled no    *)
(* later query is started.                                                 *)
C15_Terminates ==
    /\ <>(pc = "done" /\ \A k \in 1..Len(test_queries) : outcome[k] \in TerminalOutcomes)
    /\ [][\A k \in 1..Len(test_queries) :
             outcome[k] # "pending" => outcome'[k] = outcome[k]]_vars
    /\ []HangStalls

C15_Witness ==
    /\ pc = "done"
    /\ Len(test_queries) = 2
    /\ outcome = << "skipped", "printed" >>

-----------------------------------------------------------------------------
(* Configuration manager and startup *)

\* load_config got as far as reading both files and merging them
MergedBoth ==
    /\ _environment # NoneValue
    /\ exists(base_config_path)
    /\ exists(env_config_path(_environment.val))

RECURSIVE IsDeepMerge(_, _, _)
\* result is the deep merge of the mappings base and overlay
IsDeepMerge(base, overlay, result) ==
    /\ result.tag = "dict"
    /\ DOMAIN result.items = DOMAIN base.items \cup DOMAIN overlay.items
    /\ \A key \in DOMAIN result.items :
          IF key \notin DOMAIN overlay.items
          THEN result.items[key] = base.items[key]
          ELSE IF key \notin DOMAIN base.items
          THEN result.items[key] = overlay.items[key]
          ELSE IF base.items[key].tag = "dict" /\ overlay.items[key].tag = "dict"
          THEN IsDeepMerge(base.items[key], overlay.items[key], result.items[key])
          ELSE result.items[key] = overlay.items[key]

ExampleMerged ==
    Dict(K("a") :> Dict((K("x") :> Scalar("1")) @@ (K("y") :> Scalar("3"))
                            @@ (K("z") :> Scalar("4"))))

(* C16: merging the mappings base and overlay gives the union of their     *)
(* keys; a key of both whose two values are mappings holds their recursive *)
(* merge, any other key of the overlay holds the overlay's value (a        *)
(* mapping replaces a scalar and a scalar a mapping), a key of the base    *)
(* alone keeps the base's value; {a:{x:1,y:2}} with {a:{y:3,z:4}} gives    *)
(* {a:{x:1,y:3,z:4}}.                                                      *)
C16_DeepMerge ==
    LET base == yaml_files[base_config_path]
        overlay == yaml_files[env_config_path(_environment.val)]
    IN  (MergedBoth /\ base.tag = "dict" /\ overlay.tag = "dict") =>
            /\ error # "AttributeError"
            /\ IsDeepMerge(base, overlay, _config)
            /\ (base = ExampleBase /\ overlay = ExampleOverlay) => _config = ExampleMerged

C16_Witness ==
    /\ MergedBoth
    /\ yaml_files[base_config_path] = ExampleBase
    /\ yaml_files[env_config_path("development")] = ExampleOverlay
    /\ _config = ExampleMerged
    /\ spc = "load_dotenv_env"

\* the value at each depth of the descent along keys, Missing from the first
\* segment that is not a key of a mapping
ValueAlong(config, keys) ==
    LET at[j \in 0..Len(keys)] ==
            IF j = 0 THEN config
            ELSE IF at[j - 1].tag = "dict" /\ keys[j] \in DOMAIN at[j - 1].items
            THEN at[j - 1].items[keys[j]]
            ELSE Missing
    IN  at[Len(keys)]

(* C17: get(key_path, default) descends the dot-separated path through the *)
(* nested mappings and returns the value found; when a segment is missing, *)
(* a non-mapping is reached before the path ends, or no configuration was  *)
(* loaded, it returns default (None if none given); it never raises.       *)
C17_GetReturnsDefault ==
    got.called =>
        LET found == ValueAlong(got.config, split(got.key_path))
        IN  /\ got.raised = ""
            /\ got.value = IF found = Missing THEN got.default ELSE found

\* get("a.x.y", "fallback") on {a:{x:1,...}}: the scalar 1 is reached before
\* the path ends
C17_Witness ==
    /\ got.called
    /\ got.key_path = << "a", ".", "x", ".", "y" >>
    /\ got.config = ExampleBase
    /\ got.default = Scalar("fallback")
    /\ got.value = Scalar("fallback")
    /\ got.raised = ""

\* what the startup needs, as the import of main.py finds it
StartupInputsPresent ==
    /\ getenv("ENV") # NoneValue
    /\ getenv("AZURE_OPENAI_ENDPOINT") # NoneValue
    /\ getenv("AZURE_OPENAI_API_KEY") # NoneValue
    /\ exists(base_config_path)

-----------------------------------------------------------------------------
(* Result slots *)

\* the slot holds a list of results
Present(p) == Slot(p).tag = "List"

(* C19: when the aggregator is invoked, the slot of platform P is present  *)
(* if and only if the router selected P and P's call succeeded; a present  *)
(* slot holds exactly one record, whose query is the original query and    *)
(* whose source is P's platform name.                                      *)
C19_SlotsAtAggregation ==
    pc = "aggregate" =>
        \A p \in Platforms :
            /\ Present(p) <=> (p \in required_services /\ p \in Succeeded)
            /\ Present(p) =>
                  /\ Len(Slot(p).list) = 1
                  /\ Slot(p).list[1].query = test_queries[i]
                  /\ Slot(p).list[1].source =
                        (CASE p = "servicenow" -> "ServiceNow"
                           [] p = "gti" -> "Google Threat Intelligence"
                           [] p = "opensearch" -> "OpenSearch")

C19_Witness ==
    /\ variant = "workflow"
    /\ pc = "aggregate"
    /\ required_services = {"servicenow", "opensearch"}
    /\ Raised = {"opensearch"}
    /\ servicenow_results = QueryResult("servicenow", test_queries[i], "INC001: open")
    /\ gti_results = None
    /\ opensearch_results = None

\* the slot of p as the calls of the current query alone determine it
FreshSlot(p) ==
    IF p \in Succeeded THEN QueryResult(p, test_queries[i], ReturnedText(p)) ELSE None

(* C20: nothing is carried from one query to the next: once the router has *)
(* answered, a slot holds results only if the platform's call of the       *)
(* current query returned them, and the context handed to the aggregator   *)
(* is built from the current query and the results of its own calls only,  *)
(* whatever the earlier queries' outcome was.                              *)
C20_NoCarryOver ==
    /\ (RouterReturned /\ ~QueryEnded) =>
          \A p \in Platforms : Truthy(Slot(p)) => Slot(p) = FreshSlot(p)
    /\ pc = "aggregate" =>
          context = BuildContext(variant, test_queries[i], FreshSlot("servicenow"),
                                 FreshSlot("gti"), FreshSlot("opensearch"))

C20_Witness ==
    /\ variant = "main"
    /\ Len(test_queries) = 2
    /\ i = 2
    /\ outcome[1] = "printed"
    /\ pc = "aggregate"
    /\ required_services = {"gti"}
    /\ servicenow_results = None
    /\ HeadingPositions("servicenow") = {}
    /\ HeadingPositions("gti") # {}

-----------------------------------------------------------------------------
(* Tool-server connections of main.py *)

\* run was called and has returned
RunReturned == mpc \in {"returned", "servicenow_closed", "exited"}

\* run has not touched a query
NoQueryTouched == i = 1 /\ pc = "loop" /\ calls = << >>

(* C21 as stated: each connection is opened exactly once before the first  *)
(* query and closed only after run has returned.  The part checked here:   *)
(* a closed connection implies that run has returned.  A ServiceNow server *)
(* that fails to start closes the GTI connection although run was never    *)
(* called.                                                                 *)
C21_Original_ClosedOnlyAfterRun ==
    \A s \in Servers : server[s] = "closed" => RunReturned

(* C21 (amended): in main.py each tool server is connected at most once,   *)
(* and exactly once before the first query is processed; a connection is   *)
(* closed only after run has returned, or, when a server fails to start,   *)
(* without run having been called; every platform query is issued and      *)
(* pending while its server's connection is open, and run holds the same   *)
(* handle, the one of that single connection, for all queries.             *)
C21_ServerLifecycle ==
    /\ \A s \in Servers : opens[s] <= 1
    /\ ~NoQueryTouched =>
          \A s \in Servers : opens[s] = 1 /\ run_servers[s] = Handle(s, 1)
    /\ \A s \in Servers :
          server[s] = "closed" =>
              \/ RunReturned /\ pc = "done"
              \/ mpc = "raised" /\ NoQueryTouched /\ run_servers[s] = NoHandle
    /\ \A s \in Servers :
          task[s] \in {"scheduled", "running"} =>
              /\ server[s] = "open"
              /\ mpc = "running"
              /\ run_servers[s] = Handle(s, opens[s])

C21_Witness ==
    /\ mpc = "exited"
    /\ server = [s \in Servers |-> "closed"]
    /\ opens = [s \in Servers |-> 1]
    /\ Len(test_queries) = 2
    /\ outcome = << "printed", "printed" >>

-----------------------------------------------------------------------------
(* load_config *)

\* the overlay document of the environment load_config settled on
OverlayOf(environment) == yaml_files[env_config_path(environment.val)]

(* C22: load_config called without an environment takes the value of ENV,  *)
(* or 'development' when ENV is unset; with no overlay file for the chosen *)
(* environment the loaded configuration is the base document alone and no  *)
(* error is raised; with an overlay it is the deep merge of base with that *)
(* overlay.                                                                *)
C22_LoadConfig ==
    last_load.called =>
        LET base == yaml_files[base_config_path]
        IN  /\ last_load.environment = NoneValue =>
                  _environment = IF environ["ENV"] = NoneValue
                                 THEN Scalar("development")
                                 ELSE environ["ENV"]
            /\ (exists(base_config_path) /\ ~exists(env_config_path(_environment.val))) =>
                  error = "" /\ _config = base
            /\ (/\ exists(base_config_path) /\ exists(env_config_path(_environment.val))
                /\ base.tag = "dict" /\ OverlayOf(_environment).tag = "dict") =>
                  /\ error = ""
                  /\ IsDeepMerge(base, OverlayOf(_environment), _config)

\* load_config() with ENV=production: the production overlay is merged
C22_Witness ==
    /\ last_load.called
    /\ last_load.environment = NoneValue
    /\ environ["ENV"] = Scalar("production")
    /\ _environment = Scalar("production")
    /\ yaml_files[base_config_path] = ExampleBase
    /\ OverlayOf(_environment) = Dict(K("b") :> Dict(K("x") :> Scalar("1")))
    /\ _config = Dict((K("a") :> ExampleBase.items[K("a")])
                          @@ (K("b") :> Dict(K("x") :> Scalar("1"))))
    /\ error = ""

\* the key path resolves to a value in the document
Resolves(document, key_path) == ValueAlong(document, split(key_path)) # Missing

(* C28: load_config replaces what was loaded: after a load_config that     *)
(* follows an earlier one, the configuration is the base merged with the   *)
(* overlay of the later call's environment only (the base alone without    *)
(* such an overlay), and a key path that only the earlier call's overlay   *)
(* provided yields the default through get.                                *)
C28_ReloadReplaces ==
    (/\ last_load.called
     /\ last_load.prior_environment # NoneValue
     /\ error = "") =>
        LET base == yaml_files[base_config_path]
            later == IF exists(env_config_path(_environment.val))
                     THEN OverlayOf(_environment) ELSE Dict(<< >>)
            earlier == IF exists(env_config_path(last_load.prior_environment.val))
                       THEN OverlayOf(last_load.prior_environment) ELSE Dict(<< >>)
        IN  /\ base.tag = "dict" => IsDeepMerge(base, later, _config)
            /\ \A key_path \in KeyPaths :
                  (/\ Resolves(earlier, key_path)
                   /\ ~Resolves(base, key_path)
                   /\ ~Resolves(later, key_path)) =>
                      get(key_path, Scalar("fallback")).value = Scalar("fallback")

\* load_config("production") after load_config("development"): "b" came
\* from the development overlay only
C28_Witness ==
    /\ last_load.called
    /\ last_load.prior_environment = Scalar("development")
    /\ _environment = Scalar("production")
    /\ error = ""
    /\ yaml_files[base_config_path] = ExampleBase
    /\ yaml_files[env_config_path("development")] = Dict(K("b") :> Dict(K("x") :> Scalar("1")))
    /\ yaml_files[env_config_path("production")] = Dict(K("a") :> Dict(K("z") :> Scalar("9")))
    /\ Resolves(last_load.prior_config, << "b" >>)
    /\ ~Resolves(_config, << "b" >>)
    /\ got.called /\ got.config = _config /\ got.key_path = << "b" >>
    /\ got.value = got.default

-----------------------------------------------------------------------------
(* Router failure *)

(* C23: if the router call raises for query k, the router was called once  *)
(* (no retry), no platform query and no aggregator call is made for query  *)
(* k, the handler of run records the error, and run goes on with query     *)
(* k+1 (or ends when k was the last query).                                *)
C23_RouterFailureHandled ==
    Count("router", "raise") > 0 =>
        /\ calls = << Event("guardrail", "call"), Event("guardrail", "return"),
                      Event("router", "call"), Event("router", "raise") >>
        /\ i >= 2
        /\ outcome[i - 1] = "error"
        /\ \A p \in Platforms : task[p] = "none"
        /\ IF i <= Len(test_queries)
           THEN pc = "loop" /\ outcome[i] = "pending" /\ ENABLED StartQuery
           ELSE pc \in {"loop", "done"}

C23_Witness ==
    /\ Count("router", "raise") > 0
    /\ variant = "workflow"
    /\ Len(test_queries) = 2
    /\ i = 2 /\ pc = "loop"
    /\ outcome = << "error", "pending" >>

-----------------------------------------------------------------------------
(* Concurrent fan-out: slots and completion order *)

\* the current query went through asyncio.gather
Gathered ==
    /\ GatherVariant
    /\ RouterReturned
    /\ ExecutionMode(variant, required_services) = "gather"

(* C24: after the concurrent fan-out, whatever the selection and the order *)
(* in which the calls settled, the slot of a platform holds the record     *)
(* built from that platform's own answer when its call returned, None when *)
(* its call raised, and no list when the platform was not selected: no     *)
(* outcome lands in another platform's slot.                               *)
C24_OwnSlot ==
    (Gathered /\ PastFanOut) =>
        \A p \in Platforms :
            /\ p \in Succeeded =>
                  /\ Present(p)
                  /\ Slot(p).list = << [query |-> message, result |-> ReturnedText(p),
                                       source |-> SourceName(p)] >>
            /\ p \in Raised => Slot(p) = None
            /\ p \notin required_services => ~Present(p)
            /\ \A q \in Platforms \ {p} :
                  Present(q) => Slot(q).list[1].source # SourceName(p)

\* the three calls settled in the reverse of their argument order, GTI with
\* a failure
C24_Witness ==
    /\ variant = "workflow"
    /\ pc = "aggregate"
    /\ required_services = Platforms
    /\ Raised = {"gti"}
    /\ Pos("opensearch", "return") < Pos("gti", "raise")
    /\ Pos("gti", "raise") < Pos("servicenow", "return")
    /\ Present("servicenow") /\ Present("opensearch")
    /\ gti_results = None


\* what the platform calls of the current query answered, without the order
\* in which they did: one entry per call that returned
OutcomeSet == { [platform |-> p, text |-> ReturnedText(p)] : p \in Succeeded }

\* the section a set of outcomes gives platform p
SectionFrom(p, outcomes) ==
    IF \E o \in outcomes : o.platform = p
    THEN << Heading(p), "- ", (CHOOSE o \in outcomes : o.platform = p).text, "\n", "\n" >>
    ELSE << >>

\* positions of the headings present in the context, platform by platform
HeadingAt(p) == CHOOSE k \in HeadingPositions(p) : TRUE

\* the fixed order of the sections
SectionRank(p) ==
    CASE p = "servicenow" -> 1
      [] p = "gti" -> 2
      [] p = "opensearch" -> 3

(* C25: the context does not depend on the scheduling: after a concurrent  *)
(* fan-out it is a function of the query and of the set of answers alone   *)
(* (two runs with the same answers, settled in whatever order, build the   *)
(* same text), with the sections in the order ServiceNow, GTI, OpenSearch. *)
C25_ContextIndependentOfOrder ==
    (Gathered /\ pc = "aggregate") =>
        /\ context =
              << "Original Query: ", message, "\n\n" >>
                  \o SectionFrom("servicenow", OutcomeSet)
                  \o SectionFrom("gti", OutcomeSet)
                  \o (IF variant = "workflow" THEN SectionFrom("opensearch", OutcomeSet)
                      ELSE << "Please provide a comprehensive summary and recommendations based on all available information." >>)
        /\ \A p, q \in Succeeded :
              SectionRank(p) < SectionRank(q) => HeadingAt(p) < HeadingAt(q)

\* GTI answered before ServiceNow, and the ServiceNow section still comes
\* first
C25_Witness ==
    /\ variant = "main"
    /\ pc = "aggregate"
    /\ Succeeded = {"servicenow", "gti"}
    /\ Pos("gti", "return") < Pos("servicenow", "return")
    /\ HeadingAt("servicenow") < HeadingAt("gti")


-----------------------------------------------------------------------------
(* Two executions compared                                                 *)

\* the external calls gave the two executions the same values: the same
\* verdict, the same flags, and each kind of call settled the same way
\* wherever both executions made it
SameReturnedValues(a, b) ==
    /\ (a.verdict_known /\ b.verdict_known) => a.verdict = b.verdict
    /\ (a.flags_known /\ b.flags_known) => a.flags = b.flags
    /\ \A e \in a.settled : \A f \in b.settled : e.kind = f.kind => e.ev = f.ev

\* the second execution is over, the first was of the given pairing
BothRunsOver(twin) == first_run.recorded /\ first_run.twin = twin /\ pc = "done"

(* C26: two executions of the same script on different query texts, whose  *)
(* external calls returned the same verdict, the same flags and the same   *)
(* success or failure, issue the same sequence of kinds of external calls  *)
(* and end their query with the same outcome.                              *)
C26_ControlFlowIgnoresText ==
    (BothRunsOver("text") /\ SameReturnedValues(first_run, ThisRun("text"))) =>
        /\ ThisRun("text").issued = first_run.issued
        /\ ThisRun("text").outcome = first_run.outcome

\* both executions went through a fan-out of two platforms to a printed answer
C26_Witness ==
    /\ BothRunsOver("text")
    /\ SameReturnedValues(first_run, ThisRun("text"))
    /\ first_run.outcome = "printed"
    /\ Cardinality(first_run.flags) = 2
    /\ Len(first_run.issued) = 5

(* C27: main.py's run and workflow.py's run on the same query, given the   *)
(* same verdict, the same flags without OpenSearch and the same success or *)
(* failure of each call, issue the same sequence of guardrail, router,     *)
(* platform and aggregator calls and leave the same platform slots present.*)
C27_MainEquivalentToWorkflow ==
    (/\ BothRunsOver("variant")
     /\ SameReturnedValues(first_run, ThisRun("variant"))
     /\ "opensearch" \notin ThisRun("variant").flags) =>
        /\ ThisRun("variant").issued = first_run.issued
        /\ ThisRun("variant").present = first_run.present

\* main.py and then workflow.py gathered both platforms, one of which failed
C27_Witness ==
    /\ BothRunsOver("variant")
    /\ variant = "workflow"
    /\ SameReturnedValues(first_run, ThisRun("variant"))
    /\ first_run.flags = {"servicenow", "gti"}
    /\ first_run.present = {"gti"}
    /\ first_run.issued = << "guardrail", "router", "servicenow", "gti", "aggregator" >>
    /\ ThisRun("variant").flags = {"servicenow", "gti"}



-----------------------------------------------------------------------------
(* _merge_configs: arguments, idempotence, the empty mapping               *)

LastMerge == merges[Len(merges)]

\* the dict objects reachable from the dict at an address
RECURSIVE ObjectsFrom(_, _)
ObjectsFrom(h, a) ==
    {a} \cup UNION { ObjectsFrom(h, h[a][key].addr) :
                       key \in { k \in DOMAIN h[a] : IsDictCell(h[a][k]) } }

\* the dict returned by the last call has the value the merge of the values
\* of its arguments has
ObjectsAgreeWithValues ==
    merges # << >> =>
        Unfold(heap, LastMerge.result)
            = _merge_configs(LastMerge.base_before, LastMerge.override_before)

(* C29: after a call of _merge_configs, base and override, and every       *)
(* mapping nested in them at any depth, hold the keys and values they     *)
(* held before the call.                                                   *)
C29_ArgumentsNotModified ==
    \A k \in 1..Len(merges) :
        /\ \A a \in ObjectsFrom(merges[k].heap_before, merges[k].base)
                    \cup ObjectsFrom(merges[k].heap_before, merges[k].override) :
              heap[a] = merges[k].heap_before[a]
        /\ Unfold(heap, merges[k].base) = merges[k].base_before
        /\ Unfold(heap, merges[k].override) = merges[k].override_before

\* a call merged a nested mapping of the override into one of the base, and
\* the result differs from both arguments
C29_Witness ==
    /\ merges # << >>
    /\ LastMerge.which = "base_override"
    /\ \E key \in MergeKeys :
          /\ key \in DOMAIN heap[LastMerge.base]
          /\ key \in DOMAIN heap[LastMerge.override]
          /\ IsDictCell(heap[LastMerge.base][key])
          /\ IsDictCell(heap[LastMerge.override][key])
          /\ heap[LastMerge.result][key].addr
                \notin {heap[LastMerge.base][key].addr, heap[LastMerge.override][key].addr}
    /\ Unfold(heap, LastMerge.result) # LastMerge.base_before
    /\ Unfold(heap, LastMerge.result) # LastMerge.override_before

(* C30: merging the override into the result of a merge with the same      *)
(* override changes nothing; merging an empty mapping into base gives      *)
(* base; merging override into an empty mapping gives override.            *)
C30_IdempotentWithEmptyIdentity ==
    merges # << >> =>
        /\ LastMerge.which = "result_override" =>
              Unfold(heap, LastMerge.result) = Unfold(heap, merges[1].result)
        /\ LastMerge.which = "base_empty" =>
              Unfold(heap, LastMerge.result) = Unfold(heap, roots.base)
        /\ LastMerge.which = "empty_override" =>
              Unfold(heap, LastMerge.result) = Unfold(heap, roots.override)

\* the override was merged a second time into a result that differs from
\* both arguments
C30_Witness ==
    /\ Len(merges) = 2
    /\ LastMerge.which = "result_override"
    /\ Unfold(heap, merges[1].result) # merges[1].base_before
    /\ Unfold(heap, merges[1].result) # merges[1].override_before


=============================================================================
